---- MODULE Spec2Model ----
(***************************************************************************)
(* Sudoku puzzle generator and constraint solver (src/utils/sudokuUtils.ts) *)
(* as a state machine.  The topology (squares, units, peers) is constant.  *)
(* The recursive functions of the solver run as explicit call stacks: one  *)
(* step is one iteration of the loop of the innermost active call, so the  *)
(* machine visits the stores of the propagation in the order the code      *)
(* produces them.  createPuzzle, generateBoard/solveSudoku and shuffleArray *)
(* are machines of the same kind; isValid and the peers table are applied  *)
(* to arguments drawn from bounded sets.                                   *)
(***************************************************************************)
EXTENDS Integers, Sequences, FiniteSets, TLC

\* ------------------------------------------------------------------ helpers

\* JavaScript null: the failure value threaded through the solver.
NULL == << >>

\* A const that has not been initialised yet.
UNDEFINED == <<"undefined">>

\* Array.prototype.includes / String.prototype.includes on a sequence.
includes(seq, x) == \E k \in 1..Len(seq) : seq[k] = x

\* Array.prototype.indexOf, 0-based, -1 when absent.
indexOf(seq, x) ==
  IF includes(seq, x)
    THEN (CHOOSE k \in 1..Len(seq) : seq[k] = x /\ \A m \in 1..(k - 1) : seq[m] # x) - 1
    ELSE -1

\* String.prototype.replace(d, ""): drops the first occurrence of d.
replace(str, d) ==
  LET k == indexOf(str, d) + 1
  IN  IF k = 0 THEN str
      ELSE SubSeq(str, 1, k - 1) \o SubSeq(str, k + 1, Len(str))

\* ----------------------------------------------------------------- topology

cross(A, B) ==
  [k \in 1..(Len(A) * Len(B)) |->
     <<A[((k - 1) \div Len(B)) + 1], B[((k - 1) % Len(B)) + 1]>>] \o << >>

digits == <<"1", "2", "3", "4", "5", "6", "7", "8", "9">>
rows == <<"A", "B", "C", "D", "E", "F", "G", "H", "I">>
cols == digits
squares == cross(rows, cols)

rowSquares == <<SubSeq(rows, 1, 3), SubSeq(rows, 4, 6), SubSeq(rows, 7, 9)>>
colSquares == <<SubSeq(cols, 1, 3), SubSeq(cols, 4, 6), SubSeq(cols, 7, 9)>>

unitlist ==
  [r \in 1..Len(rows) |-> cross(<<rows[r]>>, cols)]
  \o [c \in 1..Len(cols) |-> cross(rows, <<cols[c]>>)]
  \o [k \in 1..(Len(rowSquares) * Len(colSquares)) |->
        cross(rowSquares[((k - 1) \div Len(colSquares)) + 1],
              colSquares[((k - 1) % Len(colSquares)) + 1])]

SquareSet == {squares[k] : k \in 1..Len(squares)}

units == [s \in SquareSet |-> SelectSeq(unitlist, LAMBDA u : includes(u, s))]

\* Fault injection for addAll: the test s2 !== s is left out.
RECURSIVE addAllWithSelf(_, _, _, _)
addAllWithSelf(acc, unit, k, s) ==
  IF k > Len(unit) THEN acc
  ELSE addAllWithSelf(IF ~includes(acc, unit[k]) THEN Append(acc, unit[k]) ELSE acc,
                      unit, k + 1, s)

\* for (const s2 of unit) if (s2 !== s) unitPeers.add(s2), from index k on;
\* Set<string>.add keeps insertion order: a sequence without repeats.
RECURSIVE addAll(_, _, _, _)
addAll(acc, unit, k, s) ==
  IF k > Len(unit) THEN acc
  ELSE addAll(IF unit[k] # s /\ ~includes(acc, unit[k]) THEN Append(acc, unit[k]) ELSE acc,
              unit, k + 1, s)

RECURSIVE unitPeers(_, _, _)
unitPeers(acc, s, n) ==
  IF n > Len(units[s]) THEN acc
  ELSE unitPeers(addAll(acc, units[s][n], 1, s), s, n + 1)

peersOf(s) == unitPeers(<< >>, s, 1)

peers == [s \in SquareSet |-> peersOf(s)]

\* ------------------------------------------------------------------- state

VARIABLES
  board,      \* countSolutions: the board argument
  limit,      \* countSolutions: the limit argument
  count,      \* countSolutions: let count
  pc,         \* countSolutions: "idle", "parse", "search_call", "search_loop", "done"
  pk,         \* parse_grid: position of the (r, c) double loop, 1..82
  values,     \* the GridValues object assign/eliminate mutate; NULL after a failure
  frames,     \* call stack of assign/eliminate, innermost last
  sframes,    \* call stack of searchCounter, innermost last
  initialValues,      \* countSolutions: const initialValues, the result of parse_grid
  solvedBoard,        \* createPuzzle: the solvedBoard argument
  difficulty,         \* createPuzzle: the difficulty argument (cells to remove)
  puzzle,             \* createPuzzle: const puzzle
  sharedRows,         \* createPuzzle: is puzzle[r] the array object solvedBoard[r]
  potentialRemovals,  \* createPuzzle: the shuffled squares
  ri,                 \* createPuzzle: position of the for-of loop, 1..81
  originalValue,      \* createPuzzle: const originalValue of the current iteration
  removedCount,       \* createPuzzle: let removedCount
  cpc,                \* createPuzzle: "idle", "loop", "check", "final", "final_wait", "returned"
  result,             \* createPuzzle: the returned value
  rnd,                \* state of the source behind Math.random
  array,              \* shuffleArray: the array being shuffled in place
  si,                 \* shuffleArray: let i, 0 once the loop is over
  gboard,             \* generateBoard: const board, filled in place by solveSudoku
  gframes,            \* call stack of solveSudoku, innermost last
  gret,               \* solveSudoku: the value the last finished call returned
  gpc,                \* generateBoard: "idle", "call", "shuffle", "loop", "return", "returned"
  call,               \* the arguments of the last call of a pure function
  ret,                \* what that call returned
  game,               \* useSudokuGame: the hook's state, refs and route parameter
  savedGame,          \* AsyncStorage: the item under SAVED_GAME_KEY
  increment           \* the record column the last step asked increment_difficulty for

solverVars == <<board, limit, count, pc, pk, values, frames, sframes, initialValues>>
puzzleVars == <<solvedBoard, difficulty, puzzle, sharedRows, potentialRemovals, ri,
                originalValue, removedCount, cpc, result>>
shuffleVars == <<rnd, array, si>>
boardVars == <<gboard, gframes, gret, gpc>>
callVars == <<call, ret>>
gameVars == <<game, savedGame, increment>>
callerVars == <<puzzleVars, shuffleVars, boardVars, callVars, gameVars>>

\* --------------------------------------------------------- constraint store

\* digit.toString() for a board digit 1..9.
toString(digit) == digits[digit]

\* A frame of the call stack.  op "assign": the loop of assign over
\* other_values (other).  op "peers": eliminate, in the loop (2) over peers[s]
\* with d2 = other[1].  op "units": eliminate, in the loop (3) over units[s].
\* k is the next index of the loop; depth counts the eliminate calls on the
\* stack up to and including this frame.
Frame(op, s, d, other, depth) ==
  [op |-> op, s |-> s, d |-> d, other |-> other, k |-> 1, depth |-> depth]

Top(stack) == stack[Len(stack)]
Pop(stack) == SubSeq(stack, 1, Len(stack) - 1)
Advance(stack) == [stack EXCEPT ![Len(stack)].k = @ + 1]

\* Fault injection for other_values: a digit the square has already lost is
\* taken as assigned.
otherValuesIfPresent(str, d) == IF includes(str, d) THEN replace(str, d) ELSE << >>

\* assign: const other_values = values[s].replace(d, "")
other_values(str, d) == replace(str, d)

\* The frame assign(values, s, d) starts with.
assignFrame(vals, s, d, depth) == Frame("assign", s, d, other_values(vals[s], d), depth)

\* eliminate (1): values[s].length === 0
emptied(str) == Len(str) = 0

\* Fault injection for limitReached: the search stops one solution late.
overLimit(cnt, lim) == cnt > lim

\* Fault injection for eliminateCall: the test "already eliminated" is left out.
eliminateCallAlways(vals, s, d, depth) ==
  LET v1 == [vals EXCEPT ![s] = replace(vals[s], d)]
  IN  IF emptied(v1[s]) THEN [kind |-> "fail"]
      ELSE IF Len(v1[s]) = 1
        THEN [kind |-> "enter", values |-> v1,
              frame |-> Frame("peers", s, d, v1[s], depth + 1)]
        ELSE [kind |-> "enter", values |-> v1,
              frame |-> Frame("units", s, d, << >>, depth + 1)]

\* Fault injection for eliminateCall: loop (2) over the peers is left out.
eliminateCallUnitsOnly(vals, s, d, depth) ==
  IF ~includes(vals[s], d) THEN [kind |-> "noop"]
  ELSE LET v1 == [vals EXCEPT ![s] = replace(vals[s], d)]
       IN  IF emptied(v1[s]) THEN [kind |-> "fail"]
           ELSE [kind |-> "enter", values |-> v1,
                 frame |-> Frame("units", s, d, << >>, depth + 1)]

\* Fault injection for eliminateCall: the digit is left in the square.
eliminateCallKeep(vals, s, d, depth) ==
  IF ~includes(vals[s], d) THEN [kind |-> "noop"]
  ELSE [kind |-> "enter", values |-> vals,
        frame |-> Frame("units", s, d, << >>, depth + 1)]

\* eliminate(values, s, d) up to its loops, called from a frame of depth `depth`:
\* "noop" when d is already absent, "fail" when the square is emptied, and
\* otherwise the store with d removed and the frame eliminate continues in.
eliminateCall(vals, s, d, depth) ==
  IF ~includes(vals[s], d) THEN [kind |-> "noop"]
  ELSE LET v1 == [vals EXCEPT ![s] = replace(vals[s], d)]
       IN  IF emptied(v1[s]) THEN [kind |-> "fail"]
           ELSE IF Len(v1[s]) = 1
             THEN [kind |-> "enter", values |-> v1,
                   frame |-> Frame("peers", s, d, v1[s], depth + 1)]
             ELSE [kind |-> "enter", values |-> v1,
                   frame |-> Frame("units", s, d, << >>, depth + 1)]

\* Fault injection for dplacesOf: the filter keeps every square of the unit.
dplacesAll(vals, u, d) == u

\* u.filter((s2) => values[s2].includes(d))
dplacesOf(vals, u, d) == SelectSeq(u, LAMBDA s2 : includes(vals[s2], d))

\* Fault injection for spread: the store is passed on as it is.
sameObject(vals) == [store |-> vals, alias |-> TRUE]

\* { ...values }: a new object with the candidate strings of values; alias
\* tells whether the result is the object it was made from.
spread(vals) == [store |-> vals, alias |-> FALSE]

\* The stack of the search after values[s] = ... wrote v to the store under
\* propagation: a frame whose branch runs on its own store object, and every
\* frame below it for which that holds in turn, sees the write.
RECURSIVE written(_, _, _)
written(stack, n, v) ==
  IF n = 0 \/ ~stack[n].alias THEN stack
  ELSE written([stack EXCEPT ![n].values = v], n - 1, v)

\* What the caller of the outermost assign does with null: parse_grid returns
\* null and countSolutions sets count = 0; searchCounter(null) is entered.
Fail ==
  /\ values' = NULL
  /\ frames' = << >>
  /\ IF pc = "parse"
       THEN pc' = "done" /\ count' = 0 /\ initialValues' = NULL
       ELSE UNCHANGED <<pc, count, initialValues>>
  /\ UNCHANGED <<board, limit, pk, sframes>>

\* One call eliminate(values, s, d) made by the top frame, whose loop advances.
CallEliminate(s, d) ==
  LET r == eliminateCall(values, s, d, Top(frames).depth)
  IN  IF r.kind = "fail" THEN Fail
      ELSE /\ IF r.kind = "noop"
                THEN values' = values /\ frames' = Advance(frames) /\ sframes' = sframes
                ELSE /\ values' = r.values
                     /\ frames' = Append(Advance(frames), r.frame)
                     /\ sframes' = written(sframes, Len(sframes), r.values)
           /\ UNCHANGED <<board, limit, count, pc, pk, initialValues>>

\* assign: for (const d2 of other_values) if (!eliminate(values, s, d2)) return null
assign_step ==
  /\ frames # << >>
  /\ Top(frames).op = "assign"
  /\ LET f == Top(frames)
     IN  IF f.k > Len(f.other)
           THEN /\ frames' = Pop(frames)
                /\ UNCHANGED <<board, limit, count, pc, pk, values, sframes, initialValues>>
           ELSE CallEliminate(f.s, f.other[f.k])
  /\ UNCHANGED callerVars

\* eliminate (2): for (const s2 of peers[s]) if (!eliminate(values, s2, d2)) return null
eliminate_peers_step ==
  /\ frames # << >>
  /\ Top(frames).op = "peers"
  /\ LET f == Top(frames)
     IN  IF f.k > Len(peers[f.s])
           THEN /\ frames' = [frames EXCEPT ![Len(frames)].op = "units",
                                            ![Len(frames)].k = 1]
                /\ UNCHANGED <<board, limit, count, pc, pk, values, sframes, initialValues>>
           ELSE CallEliminate(peers[f.s][f.k], f.other[1])
  /\ UNCHANGED callerVars

\* eliminate (3): for (const u of units[s]) { dplaces ...; assign(values, dplaces[0], d) }
eliminate_units_step ==
  /\ frames # << >>
  /\ Top(frames).op = "units"
  /\ LET f == Top(frames)
     IN  IF f.k > Len(units[f.s])
           THEN /\ frames' = Pop(frames)
                /\ UNCHANGED <<board, limit, count, pc, pk, values, sframes, initialValues>>
           ELSE LET dplaces == dplacesOf(values, units[f.s][f.k], f.d)
                IN  IF Len(dplaces) = 0 THEN Fail
                    ELSE /\ frames' =
                              IF Len(dplaces) = 1
                                THEN Append(Advance(frames),
                                            assignFrame(values, dplaces[1], f.d, f.depth))
                                ELSE Advance(frames)
                         /\ UNCHANGED <<board, limit, count, pc, pk, values, sframes, initialValues>>
  /\ UNCHANGED callerVars

\* parse_grid: one (r, c) of the double loop; after the last, countSolutions
\* calls searchCounter(initialValues).
parse_grid_step ==
  /\ pc = "parse"
  /\ frames = << >>
  /\ IF pk > 81
       THEN /\ pc' = "search_call"
            /\ initialValues' = values
            /\ UNCHANGED <<board, limit, count, pk, values, frames, sframes>>
       ELSE LET r == (pk - 1) \div 9
                c == (pk - 1) % 9
                digit == board[r + 1][c + 1]
            IN  /\ pk' = pk + 1
                /\ frames' = IF digit # 0
                               THEN <<assignFrame(values, <<rows[r + 1], cols[c + 1]>>,
                                                  toString(digit), 0)>>
                               ELSE << >>
                /\ UNCHANGED <<board, limit, count, pc, values, sframes, initialValues>>
  /\ UNCHANGED callerVars

\* -------------------------------------------------------------------- search

\* Fault injection for minScan: the first square with more than one candidate
\* is taken, whatever its size.
RECURSIVE minScanFirst(_, _, _, _)
minScanFirst(vals, k, minLen, minSquare) ==
  IF k > Len(squares) THEN minSquare
  ELSE IF Len(vals[squares[k]]) > 1 THEN squares[k]
       ELSE minScanFirst(vals, k + 1, minLen, minSquare)

\* find_min_square: the loop over squares from index k on, with minLen and
\* minSquare as they stand; if (minLen === 2) break ends it.
RECURSIVE minScan(_, _, _, _)
minScan(vals, k, minLen, minSquare) ==
  IF k > Len(squares) THEN minSquare
  ELSE LET len == Len(vals[squares[k]])
       IN  IF len > 1 /\ len < minLen
             THEN IF len = 2 THEN squares[k]
                  ELSE minScan(vals, k + 1, len, squares[k])
             ELSE minScan(vals, k + 1, minLen, minSquare)

find_min_square(vals) == minScan(vals, 1, 10, NULL)

\* Fault injection for solved: only row A is looked at.
solvedRowA(vals) == \A k \in 1..9 : Len(vals[squares[k]]) = 1

\* let solved = true; for (const s of squares) if (values[s].length !== 1) ...
solved(vals) == \A k \in 1..Len(squares) : Len(vals[squares[k]]) = 1

\* Fault injection for limitReached: the search stops at its first solution.
firstSolution(cnt, lim) == cnt >= 1

\* return count >= limit
limitReached(cnt, lim) == cnt >= lim

\* searchCounter(values), entered with the result of parse_grid or of assign:
\* up to the loop over the digits of the chosen square.
searchCounter_enter ==
  /\ pc = "search_call"
  /\ frames = << >>
  /\ IF values = NULL
       THEN /\ pc' = "search_loop"
            /\ UNCHANGED <<count, sframes>>
       ELSE IF solved(values)
         THEN /\ count' = count + 1
              /\ IF limitReached(count + 1, limit)
                   THEN pc' = "done" /\ sframes' = << >>
                   ELSE pc' = "search_loop" /\ sframes' = sframes
         ELSE LET s == find_min_square(values)
              IN  /\ pc' = "search_loop"
                  /\ sframes' = IF s = NULL THEN sframes
                                ELSE Append(sframes, [values |-> values, s |-> s, k |-> 1, alias |-> FALSE])
                  /\ count' = count
  /\ UNCHANGED <<board, limit, pk, values, frames, initialValues>>
  /\ UNCHANGED callerVars

\* searchCounter: for (const d of values[s]) if (searchCounter(assign({...values}, s, d))) return true
searchCounter_loop ==
  /\ pc = "search_loop"
  /\ frames = << >>
  /\ IF sframes = << >>
       THEN /\ pc' = "done"
            /\ UNCHANGED <<values, frames, sframes>>
       ELSE LET f == Top(sframes)
            IN  IF f.k > Len(f.values[f.s])
                  THEN /\ sframes' = Pop(sframes)
                       /\ UNCHANGED <<pc, values, frames>>
                  ELSE /\ values' = spread(f.values).store
                       /\ frames' = <<assignFrame(f.values, f.s, f.values[f.s][f.k], 0)>>
                       /\ sframes' = [Advance(sframes) EXCEPT
                                        ![Len(sframes)].alias = spread(f.values).alias]
                       /\ pc' = "search_call"
  /\ UNCHANGED <<board, limit, count, pk, initialValues>>
  /\ UNCHANGED callerVars

\* countSolutions(board, limit): let count = 0; const initialValues = parse_grid(board)
countSolutions_call(b, lim) ==
  /\ board' = b
  /\ limit' = lim
  /\ count' = 0
  /\ pc' = "parse"
  /\ pk' = 1
  /\ values' = [s \in SquareSet |-> digits]
  /\ frames' = << >>
  /\ sframes' = << >>
  /\ initialValues' = UNDEFINED

\* search(values), entered with the result of parse_grid or of assign, up to
\* the loop over the digits of the chosen square.  values is what the call
\* returns when it returns here: null for null, the store when it is solved
\* (every caller passes a result that is not null on, so solve returns it).
search_enter ==
  /\ pc = "search_call"
  /\ frames = << >>
  /\ IF values = NULL
       THEN /\ pc' = "search_loop"
            /\ UNCHANGED <<values, sframes>>
       ELSE IF solved(values)
         THEN /\ pc' = "done"
              /\ sframes' = << >>
              /\ values' = values
         ELSE LET s == find_min_square(values)
              IN  /\ pc' = "search_loop"
                  /\ IF s = NULL
                       THEN values' = NULL /\ sframes' = sframes
                       ELSE /\ values' = values
                            /\ sframes' = Append(sframes, [values |-> values, s |-> s, k |-> 1, alias |-> FALSE])
  /\ UNCHANGED <<board, limit, count, pk, frames, initialValues>>
  /\ UNCHANGED callerVars

\* search: for (const d of values[s]) { const result = search(assign({...values}, s, d));
\* if (result) return result }, and return null after the loop; solve returns
\* what the outermost call returns.
search_loop ==
  /\ pc = "search_loop"
  /\ frames = << >>
  /\ IF sframes = << >>
       THEN /\ pc' = "done"
            /\ values' = NULL
            /\ UNCHANGED <<frames, sframes>>
       ELSE LET f == Top(sframes)
            IN  IF f.k > Len(f.values[f.s])
                  THEN /\ sframes' = Pop(sframes)
                       /\ values' = NULL
                       /\ UNCHANGED <<pc, frames>>
                  ELSE /\ values' = spread(f.values).store
                       /\ frames' = <<assignFrame(f.values, f.s, f.values[f.s][f.k], 0)>>
                       /\ sframes' = [Advance(sframes) EXCEPT
                                        ![Len(sframes)].alias = spread(f.values).alias]
                       /\ pc' = "search_call"
  /\ UNCHANGED <<board, limit, count, pk, initialValues>>
  /\ UNCHANGED callerVars

\* solve(board): const values = parse_grid(board); return search(values)
solve_call(b) ==
  /\ board' = b
  /\ pc' = "parse"
  /\ pk' = 1
  /\ values' = [s \in SquareSet |-> digits]
  /\ frames' = << >>
  /\ sframes' = << >>
  /\ initialValues' = UNDEFINED
  /\ UNCHANGED <<limit, count>>

\* parseInt(str, 10) for a string of the digits 1..9.
RECURSIVE parseDigits(_, _)
parseDigits(str, acc) ==
  IF str = << >> THEN acc
  ELSE parseDigits(Tail(str), 10 * acc + indexOf(digits, Head(str)) + 1)

\* gridValuesToBoard(values): the digit of a square with one candidate, else 0.
gridValuesToBoard(vals) ==
  [r \in 1..9 |->
     [c \in 1..9 |->
        IF Len(vals[<<rows[r], cols[c]>>]) = 1
          THEN parseDigits(vals[<<rows[r], cols[c]>>], 0)
          ELSE 0] \o << >>] \o << >>

\* ------------------------------------------------------------------ shuffle

\* The source behind Math.random: a linear congruential generator on 16 bits,
\* seeded in the initial state; Math.random() is rnd / 65536 after the
\* generator has stepped.
nextRandom(x) == (29 * x + 19) % 65536

\* Math.floor(Math.random() * n) for the generator state x behind Math.random().
floorRandom(x, n) == (x * n) \div 65536

\* Fault injection for swap: only array[i] is written.
swapOneWay(arr, i, j) == [arr EXCEPT ![i + 1] = arr[j + 1]]

\* [array[i], array[j]] = [array[j], array[i]], 0-based i and j.
swap(arr, i, j) == [arr EXCEPT ![i + 1] = arr[j + 1], ![j + 1] = arr[i + 1]]

\* shuffleArray(array): array.length - 1, where the loop starts.
shuffleStart(arr) == Len(arr) - 1

\* shuffleArray: one iteration of for (let i = array.length - 1; i > 0; i--):
\* j = Math.floor(Math.random() * (i + 1)), then the swap.
shuffleArray_step ==
  /\ si > 0
  /\ rnd' = nextRandom(rnd)
  /\ array' = swap(array, si, floorRandom(nextRandom(rnd), si + 1))
  /\ si' = si - 1
  /\ UNCHANGED <<puzzleVars, solverVars, boardVars, callVars, gameVars>>

\* ------------------------------------------------------------- createPuzzle

\* const targetRemaining = 81 - difficulty
targetRemaining(diff) == 81 - diff

\* Fault injection for unique: two solutions pass as one.
uniqueOrMore(cnt) == cnt >= 1

\* count !== 1 in the loop, finalCheck.count === 1 after it: exactly one solution.
unique(cnt) == cnt = 1

\* puzzle[r][c] = 0
clearCell(p, r, c) == [p EXCEPT ![r + 1][c + 1] = 0]

\* Fault injection for restoreCell: the next digit is written back.
restoreNext(p, r, c, v) == [p EXCEPT ![r + 1][c + 1] = (v % 9) + 1]

\* puzzle[r][c] = originalValue
restoreCell(p, r, c, v) == [p EXCEPT ![r + 1][c + 1] = v]

\* Fault injection for stopRemoving: the loop ends after any iteration.
stopAtOnce(removed, diff) == TRUE

\* The two breaks at the end of an iteration.
stopRemoving(removed, diff) ==
  \/ 81 - removed <= targetRemaining(diff)
  \/ removed >= diff

\* Fault injection for copyRows: [...solvedBoard], a new outer array of the
\* same row objects.
copyOuter(b) == [grid |-> b, shared |-> [r \in 1..9 |-> TRUE]]

\* solvedBoard.map((row) => [...row]): a new outer array of new row arrays
\* with the same digits; no row object is shared with the argument.
copyRows(b) == [grid |-> b, shared |-> [r \in 1..9 |-> FALSE]]

\* The caller's grid b after the write puzzle[r][c] = v, which reaches b when
\* row r of puzzle is b's row object.
writeThrough(b, sh, r, c, v) == IF sh[r + 1] THEN [b EXCEPT ![r + 1][c + 1] = v] ELSE b

\* createPuzzle up to the call shuffleArray([...squares]).
createPuzzle_call ==
  /\ cpc = "idle"
  /\ puzzle' = copyRows(solvedBoard).grid
  /\ sharedRows' = copyRows(solvedBoard).shared
  /\ array' = squares
  /\ si' = shuffleStart(squares)
  /\ cpc' = "shuffle"
  /\ UNCHANGED <<solvedBoard, difficulty, potentialRemovals, ri, originalValue,
                 removedCount, result, rnd>>
  /\ UNCHANGED solverVars
  /\ UNCHANGED <<boardVars, callVars, gameVars>>

\* const potentialRemovals = shuffleArray(...); let removedCount = 0
createPuzzle_shuffled ==
  /\ cpc = "shuffle"
  /\ si = 0
  /\ potentialRemovals' = array
  /\ removedCount' = 0
  /\ ri' = 1
  /\ cpc' = "loop"
  /\ UNCHANGED <<solvedBoard, difficulty, puzzle, sharedRows, originalValue, result>>
  /\ UNCHANGED shuffleVars
  /\ UNCHANGED solverVars
  /\ UNCHANGED <<boardVars, callVars, gameVars>>

\* One iteration of the loop up to the call of countSolutions(puzzle, 2).
createPuzzle_remove ==
  /\ cpc = "loop"
  /\ LET s == potentialRemovals[ri]
         r == indexOf(rows, s[1])
         c == indexOf(cols, s[2])
     IN  IF puzzle[r + 1][c + 1] = 0
           THEN /\ ri' = ri + 1
                /\ cpc' = IF ri + 1 > Len(potentialRemovals) THEN "final" ELSE "loop"
                /\ UNCHANGED <<solvedBoard, puzzle, originalValue, removedCount>>
                /\ UNCHANGED solverVars
           ELSE /\ originalValue' = puzzle[r + 1][c + 1]
                /\ puzzle' = clearCell(puzzle, r, c)
                /\ solvedBoard' = writeThrough(solvedBoard, sharedRows, r, c, 0)
                /\ removedCount' = removedCount + 1
                /\ cpc' = "check"
                /\ ri' = ri
                /\ countSolutions_call(clearCell(puzzle, r, c), 2)
  /\ UNCHANGED <<difficulty, sharedRows, potentialRemovals, result>>
  /\ UNCHANGED shuffleVars
  /\ UNCHANGED <<boardVars, callVars, gameVars>>

\* The rest of the iteration, once countSolutions has returned.
createPuzzle_check ==
  /\ cpc = "check"
  /\ pc = "done"
  /\ LET s == potentialRemovals[ri]
         r == indexOf(rows, s[1])
         c == indexOf(cols, s[2])
         kept == unique(count)
         removed == IF kept THEN removedCount ELSE removedCount - 1
     IN  /\ puzzle' = IF kept THEN puzzle ELSE restoreCell(puzzle, r, c, originalValue)
         /\ solvedBoard' = IF kept THEN solvedBoard
                            ELSE writeThrough(solvedBoard, sharedRows, r, c, originalValue)
         /\ removedCount' = removed
         /\ IF stopRemoving(removed, difficulty) \/ ri + 1 > Len(potentialRemovals)
              THEN cpc' = "final" /\ ri' = ri
              ELSE cpc' = "loop" /\ ri' = ri + 1
  /\ UNCHANGED <<difficulty, sharedRows, potentialRemovals, originalValue, result>>
  /\ UNCHANGED shuffleVars
  /\ UNCHANGED solverVars
  /\ UNCHANGED <<boardVars, callVars, gameVars>>

\* const finalCheck = countSolutions(puzzle, 2)
createPuzzle_finalCheck ==
  /\ cpc = "final"
  /\ cpc' = "final_wait"
  /\ countSolutions_call(puzzle, 2)
  /\ UNCHANGED <<solvedBoard, difficulty, puzzle, sharedRows, potentialRemovals, ri,
                 originalValue, removedCount, result>>
  /\ UNCHANGED shuffleVars
  /\ UNCHANGED <<boardVars, callVars, gameVars>>

\* return puzzle when finalCheck.count === 1, null otherwise.
createPuzzle_return ==
  /\ cpc = "final_wait"
  /\ pc = "done"
  /\ result' = IF unique(count) THEN puzzle ELSE NULL
  /\ cpc' = "returned"
  /\ UNCHANGED <<solvedBoard, difficulty, puzzle, sharedRows, potentialRemovals, ri,
                 originalValue, removedCount>>
  /\ UNCHANGED shuffleVars
  /\ UNCHANGED solverVars
  /\ UNCHANGED <<boardVars, callVars, gameVars>>

\* ---------------------------------------------------------------- inputs

\* createPuzzle is run for difficulty 0..MaxDifficulty and seeds 0..MaxSeed.
\* From seed 0 the shuffle starts with E9, E7, C9, C7, which on BoardB hold
\* 5, 6, 6, 5: clearing the fourth leaves two solutions.
MaxDifficulty == 4
MaxSeed == 1

\* generateBoard's grid when every shuffle leaves the digits in order.
BoardA ==
  << <<1,2,3,4,5,6,7,8,9>>, <<4,5,6,7,8,9,1,2,3>>, <<7,8,9,1,2,3,4,5,6>>,
     <<2,1,4,3,6,5,8,9,7>>, <<3,6,5,8,9,7,2,1,4>>, <<8,9,7,2,1,4,3,6,5>>,
     <<5,3,1,6,4,2,9,7,8>>, <<6,4,2,9,7,8,5,3,1>>, <<9,7,8,5,3,1,6,4,2>> >>

\* BoardA with rows E and F exchanged and columns 7 and 8 exchanged.
BoardB ==
  [r \in 1..9 |->
     [c \in 1..9 |->
        BoardA[IF r = 5 THEN 6 ELSE IF r = 6 THEN 5 ELSE r]
              [IF c = 7 THEN 8 ELSE IF c = 8 THEN 7 ELSE c]] \o << >>] \o << >>

SolvedBoards == {BoardA, BoardB}

vars == <<solverVars, callerVars>>

SolverIdle ==
  /\ board = NULL /\ limit = 0 /\ count = 0 /\ pc = "idle" /\ pk = 1
  /\ values = NULL /\ frames = << >> /\ sframes = << >> /\ initialValues = UNDEFINED

PuzzleIdle ==
  /\ solvedBoard = NULL /\ difficulty = 0 /\ sharedRows = << >>
  /\ puzzle = NULL /\ potentialRemovals = << >> /\ ri = 1 /\ originalValue = 0
  /\ removedCount = 0 /\ cpc = "idle" /\ result = NULL

ShuffleIdle == array = << >> /\ si = 0

BoardIdle == gboard = NULL /\ gframes = << >> /\ gret = FALSE /\ gpc = "idle"

CallIdle == call = NULL /\ ret = NULL

GameIdle == game = NULL /\ savedGame = NULL /\ increment = "null"

\* createPuzzle(solvedBoard, difficulty) on a solved board, with the uniqueness
\* checks it makes through countSolutions.
Init ==
  /\ SolverIdle /\ ShuffleIdle /\ BoardIdle /\ GameIdle /\ CallIdle
  /\ solvedBoard \in SolvedBoards
  /\ difficulty \in 0..MaxDifficulty
  /\ rnd \in 0..MaxSeed
  /\ sharedRows = << >>
  /\ puzzle = NULL /\ potentialRemovals = << >> /\ ri = 1 /\ originalValue = 0
  /\ removedCount = 0 /\ cpc = "idle" /\ result = NULL

Next ==
  \/ createPuzzle_call
  \/ shuffleArray_step
  \/ createPuzzle_shuffled
  \/ createPuzzle_remove
  \/ createPuzzle_check
  \/ createPuzzle_finalCheck
  \/ createPuzzle_return
  \/ parse_grid_step
  \/ assign_step
  \/ eliminate_peers_step
  \/ eliminate_units_step
  \/ searchCounter_enter
  \/ searchCounter_loop

Spec == Init /\ [][Next]_vars

\* ------------------------------------------------------------ generateBoard

\* Fault injection for boxStart: every cell is checked against the first box.
boxStartZero(x) == 0

\* isValid: row - (row % 3), col - (col % 3)
boxStart(x) == x - (x % 3)

\* Fault injection for isValid: the box is not checked.
isValidRowCol(b, row, col, num) ==
  /\ \A x \in 0..8 : b[row + 1][x + 1] # num
  /\ \A x \in 0..8 : b[x + 1][col + 1] # num

\* isValid(board, row, col, num), 0-based row and col: the three loops.
isValid(b, row, col, num) ==
  /\ \A x \in 0..8 : b[row + 1][x + 1] # num
  /\ \A x \in 0..8 : b[x + 1][col + 1] # num
  /\ \A i \in 0..2, j \in 0..2 : b[i + boxStart(row) + 1][j + boxStart(col) + 1] # num

\* Array(9).fill(0).map(() => Array(9).fill(0))
EmptyBoard == [r \in 1..9 |-> [c \in 1..9 |-> 0] \o << >>] \o << >>

\* Fault injection for firstEmpty: the outer loop stops before row 8.
firstEmptyAbove(b) ==
  IF \E e \in 0..71 : b[(e \div 9) + 1][(e % 9) + 1] = 0
    THEN CHOOSE e \in 0..71 :
           /\ b[(e \div 9) + 1][(e % 9) + 1] = 0
           /\ \A e2 \in 0..(e - 1) : b[(e2 \div 9) + 1][(e2 % 9) + 1] # 0
    ELSE -1

\* solveSudoku: the first (i, j) of the double loop with board[i][j] === 0, as
\* 9 * i + j, or -1 when the loops end without one.
firstEmpty(b) ==
  IF \E e \in 0..80 : b[(e \div 9) + 1][(e % 9) + 1] = 0
    THEN CHOOSE e \in 0..80 :
           /\ b[(e \div 9) + 1][(e % 9) + 1] = 0
           /\ \A e2 \in 0..(e - 1) : b[(e2 \div 9) + 1][(e2 % 9) + 1] # 0
    ELSE -1

\* generateBoard: const board = ...; solveSudoku(board)
generateBoard_call ==
  /\ gpc = "idle"
  /\ gboard' = EmptyBoard
  /\ gframes' = << >>
  /\ gpc' = "call"
  /\ UNCHANGED <<gret, puzzleVars, solverVars, shuffleVars, callVars, gameVars>>

\* solveSudoku(board) up to the call shuffleArray([1, ..., 9]), or to return
\* true when no cell is empty.
solveSudoku_enter ==
  /\ gpc = "call"
  /\ LET e == firstEmpty(gboard)
     IN  IF e = -1
           THEN /\ gret' = TRUE
                /\ gpc' = "return"
                /\ UNCHANGED <<gframes, array, si>>
           ELSE /\ gframes' = Append(gframes, [i |-> e \div 9, j |-> e % 9,
                                                numbersToTry |-> << >>, k |-> 1])
                /\ array' = <<1, 2, 3, 4, 5, 6, 7, 8, 9>>
                /\ si' = shuffleStart(<<1, 2, 3, 4, 5, 6, 7, 8, 9>>)
                /\ gpc' = "shuffle"
                /\ gret' = gret
  /\ UNCHANGED <<gboard, rnd, puzzleVars, solverVars, callVars, gameVars>>

\* const numbersToTry = shuffleArray(...)
solveSudoku_shuffled ==
  /\ gpc = "shuffle"
  /\ si = 0
  /\ gframes' = [gframes EXCEPT ![Len(gframes)].numbersToTry = array]
  /\ gpc' = "loop"
  /\ UNCHANGED <<gboard, gret, puzzleVars, solverVars, shuffleVars, callVars, gameVars>>

\* One iteration of for (let num of numbersToTry) up to the recursive call, or
\* return false after the last.
solveSudoku_try ==
  /\ gpc = "loop"
  /\ LET f == Top(gframes)
     IN  IF f.k > Len(f.numbersToTry)
           THEN /\ gframes' = Pop(gframes)
                /\ gret' = FALSE
                /\ gpc' = "return"
                /\ gboard' = gboard
           ELSE IF isValid(gboard, f.i, f.j, f.numbersToTry[f.k])
             THEN /\ gboard' = [gboard EXCEPT ![f.i + 1][f.j + 1] = f.numbersToTry[f.k]]
                  /\ gpc' = "call"
                  /\ UNCHANGED <<gframes, gret>>
             ELSE /\ gframes' = Advance(gframes)
                  /\ UNCHANGED <<gboard, gret, gpc>>
  /\ UNCHANGED <<puzzleVars, solverVars, shuffleVars, callVars, gameVars>>

\* A call of solveSudoku has returned gret: to the loop of its caller, or to
\* generateBoard, which returns the board.
solveSudoku_return ==
  /\ gpc = "return"
  /\ IF gframes = << >>
       THEN /\ gpc' = "returned"
            /\ UNCHANGED <<gboard, gframes, gret>>
       ELSE LET f == Top(gframes)
            IN  IF gret
                  THEN /\ gframes' = Pop(gframes)
                       /\ UNCHANGED <<gboard, gret, gpc>>
                  ELSE /\ gboard' = [gboard EXCEPT ![f.i + 1][f.j + 1] = 0]
                       /\ gframes' = Advance(gframes)
                       /\ gpc' = "loop"
                       /\ gret' = gret
  /\ UNCHANGED <<puzzleVars, solverVars, shuffleVars, callVars, gameVars>>

MaxBoardSeed == 7

InitBoard ==
  /\ SolverIdle /\ PuzzleIdle /\ ShuffleIdle /\ BoardIdle /\ GameIdle /\ CallIdle
  /\ rnd \in 0..MaxBoardSeed

NextBoard ==
  \/ generateBoard_call
  \/ solveSudoku_enter
  \/ shuffleArray_step
  \/ solveSudoku_shuffled
  \/ solveSudoku_try
  \/ solveSudoku_return

SpecBoard == InitBoard /\ [][NextBoard]_vars

\* generateBoard runs to its end: a call that can take a step takes it.
SpecBoardFair == SpecBoard /\ WF_vars(NextBoard)

\* ---------------------------------------------- countSolutions on its own

\* g with the cells of cs (1-based row and column) emptied.
Without(g, cs) ==
  [r \in 1..9 |-> [c \in 1..9 |-> IF <<r, c>> \in cs THEN 0 ELSE g[r][c]] \o << >>] \o << >>

\* g with digit d at (r, c), 1-based.
With(g, r, c, d) == [g EXCEPT ![r][c] = d]

MaxLimit == 3

\* Thirty cells that can be cleared from BoardA with the solution staying the
\* only one; clearing <<1, 2>> as well leaves two.
Thirty ==
  { <<1, 3>>, <<1, 5>>, <<1, 6>>, <<1, 8>>, <<2, 2>>, <<2, 8>>, <<3, 5>>, <<3, 6>>,
    <<3, 8>>, <<4, 6>>, <<5, 1>>, <<5, 4>>, <<5, 7>>, <<5, 8>>, <<6, 2>>, <<6, 4>>,
    <<6, 6>>, <<6, 7>>, <<6, 9>>, <<7, 3>>, <<7, 6>>, <<7, 7>>, <<8, 1>>, <<8, 6>>,
    <<8, 7>>, <<9, 1>>, <<9, 5>>, <<9, 6>>, <<9, 8>>, <<9, 9>> }

\* Grids with one, two, four and no completions, and grids in which a digit
\* occurs twice in a row, a column or a box.
CountGrids ==
  { BoardA,
    Without(BoardA, Thirty),
    Without(BoardA, Thirty \cup {<<1, 2>>}),
    Without(BoardB, {<<5, 9>>}),
    Without(BoardB, {<<3, 7>>, <<3, 9>>, <<5, 7>>, <<5, 9>>}),
    Without(BoardA, {<<1, 1>>, <<1, 2>>, <<4, 1>>, <<4, 2>>,
                     <<1, 5>>, <<1, 6>>, <<4, 5>>, <<4, 6>>}),
    With(Without(BoardA, {<<1, 1>>, <<2, 7>>}), 2, 1, 1),
    With(BoardA, 1, 1, 2),
    With(Without(BoardA, {<<8, 3>>}), 8, 9, 2),
    With(Without(BoardA, {<<2, 7>>, <<4, 2>>}), 2, 2, 1),
    With(With(EmptyBoard, 1, 1, 5), 1, 9, 5) }

\* A caller of countSolutions(board, limit).
countSolutions_entry ==
  /\ pc = "idle"
  /\ countSolutions_call(board, limit)
  /\ UNCHANGED callerVars

InitCount ==
  /\ PuzzleIdle /\ ShuffleIdle /\ BoardIdle /\ GameIdle /\ CallIdle
  /\ rnd = 0
  /\ board \in CountGrids
  /\ limit \in 0..MaxLimit
  /\ count = 0 /\ pc = "idle" /\ pk = 1 /\ values = NULL /\ frames = << >>
  /\ sframes = << >> /\ initialValues = UNDEFINED

NextCount ==
  \/ countSolutions_entry
  \/ parse_grid_step
  \/ assign_step
  \/ eliminate_peers_step
  \/ eliminate_units_step
  \/ searchCounter_enter
  \/ searchCounter_loop

SpecCount == InitCount /\ [][NextCount]_vars

\* A grid parse_grid fails on only after nested calls of its propagation have
\* returned: sixteen givens of BoardA and a 2 at H8, in the box of the 2 at I9.
TangledGrid ==
  << <<0,0,0,0,5,0,0,0,9>>, <<0,0,0,0,0,0,0,0,0>>, <<0,8,9,0,0,0,0,0,0>>,
     <<0,0,0,0,0,5,0,0,0>>, <<3,0,0,0,0,0,0,0,4>>, <<8,0,0,0,0,0,0,0,0>>,
     <<5,3,0,6,4,0,0,0,0>>, <<0,0,0,0,0,0,0,2,1>>, <<9,0,0,0,0,0,0,0,2>> >>

\* A grid without a repeated digit whose row A has no place for 1: A1..A3
\* are given and the 1s of B4 and C7 take the rest of the row.
NoPlaceGrid ==
  With(With(With(With(With(EmptyBoard, 1, 1, 2), 1, 2, 3), 1, 3, 4), 2, 4, 1), 3, 7, 1)

\* BoardA with 39 cells cleared: propagation leaves squares with two and with
\* more candidates, and the first unsolved square is not one of the smallest.
SparseGrid ==
  Without(BoardA,
    { <<1, 1>>, <<1, 2>>, <<1, 3>>, <<1, 8>>, <<2, 1>>, <<2, 2>>, <<2, 7>>, <<3, 2>>,
      <<3, 3>>, <<3, 5>>, <<3, 7>>, <<4, 1>>, <<4, 2>>, <<4, 5>>, <<4, 6>>, <<4, 7>>,
      <<4, 8>>, <<5, 1>>, <<5, 2>>, <<5, 3>>, <<5, 5>>, <<5, 6>>, <<5, 7>>, <<5, 9>>,
      <<6, 3>>, <<6, 9>>, <<7, 1>>, <<7, 3>>, <<7, 4>>, <<7, 5>>, <<7, 9>>, <<8, 1>>,
      <<8, 6>>, <<8, 7>>, <<8, 9>>, <<9, 1>>, <<9, 5>>, <<9, 6>>, <<9, 8>> })

StoreGrids == CountGrids \cup {TangledGrid, NoPlaceGrid, SparseGrid}

\* countSolutions(board, MaxLimit) on the grids of StoreGrids.
InitStore ==
  /\ PuzzleIdle /\ ShuffleIdle /\ BoardIdle /\ GameIdle /\ CallIdle
  /\ rnd = 0
  /\ board \in StoreGrids
  /\ limit = MaxLimit
  /\ count = 0 /\ pc = "idle" /\ pk = 1 /\ values = NULL /\ frames = << >>
  /\ sframes = << >> /\ initialValues = UNDEFINED

SpecStore == InitStore /\ [][NextCount]_vars

\* The calls run to their end: a call that can take a step takes it.
SpecStoreFair == SpecStore /\ WF_vars(NextCount)

\* BoardA with 44 cells cleared and a 5 at B4: no digit is repeated and
\* parse_grid returns a store, but the grid has no completion.
DeadEndGrid ==
  With(Without(BoardA,
         { <<1, 1>>, <<1, 2>>, <<1, 3>>, <<1, 5>>, <<1, 6>>, <<1, 9>>, <<2, 2>>, <<2, 5>>,
           <<2, 6>>, <<2, 7>>, <<2, 9>>, <<3, 5>>, <<3, 6>>, <<3, 7>>, <<4, 2>>, <<4, 4>>,
           <<4, 5>>, <<4, 6>>, <<4, 9>>, <<5, 3>>, <<5, 4>>, <<5, 6>>, <<5, 8>>, <<6, 1>>,
           <<6, 2>>, <<6, 3>>, <<6, 8>>, <<7, 1>>, <<7, 2>>, <<7, 3>>, <<7, 5>>, <<7, 7>>,
           <<7, 8>>, <<7, 9>>, <<8, 1>>, <<8, 2>>, <<8, 4>>, <<8, 6>>, <<8, 9>>, <<9, 3>>,
           <<9, 4>>, <<9, 5>>, <<9, 6>>, <<9, 7>> }),
       2, 4, 5)

\* The grids solve is called on: those of countSolutions, with no, one and
\* several completions, with and without a repeated digit.
SolveGrids == StoreGrids \cup {DeadEndGrid}

\* A caller of solve(board).
solve_entry ==
  /\ pc = "idle"
  /\ solve_call(board)
  /\ UNCHANGED callerVars

InitSolve ==
  /\ PuzzleIdle /\ ShuffleIdle /\ BoardIdle /\ GameIdle /\ CallIdle
  /\ rnd = 0
  /\ board \in SolveGrids
  /\ limit = 0
  /\ count = 0 /\ pc = "idle" /\ pk = 1 /\ values = NULL /\ frames = << >>
  /\ sframes = << >> /\ initialValues = UNDEFINED

NextSolve ==
  \/ solve_entry
  \/ parse_grid_step
  \/ assign_step
  \/ eliminate_peers_step
  \/ eliminate_units_step
  \/ search_enter
  \/ search_loop

SpecSolve == InitSolve /\ [][NextSolve]_vars

\* Grids on which both searches branch: with two, four and more completions,
\* and with none.
BranchGrids ==
  { Without(BoardA, Thirty \cup {<<1, 2>>}),
    Without(BoardA, {<<1, 1>>, <<1, 2>>, <<4, 1>>, <<4, 2>>,
                     <<1, 5>>, <<1, 6>>, <<4, 5>>, <<4, 6>>}),
    SparseGrid, DeadEndGrid }

\* solve(board) or countSolutions(board, limit), as call.fn says.
InitBranch ==
  /\ PuzzleIdle /\ ShuffleIdle /\ BoardIdle /\ GameIdle
  /\ call \in {[fn |-> "solve"], [fn |-> "countSolutions"]}
  /\ ret = NULL
  /\ rnd = 0
  /\ board \in BranchGrids
  /\ limit \in 1..MaxLimit
  /\ count = 0 /\ pc = "idle" /\ pk = 1 /\ values = NULL /\ frames = << >>
  /\ sframes = << >> /\ initialValues = UNDEFINED

NextBranch ==
  \/ call.fn = "solve" /\ solve_entry
  \/ call.fn = "solve" /\ search_enter
  \/ call.fn = "solve" /\ search_loop
  \/ call.fn = "countSolutions" /\ countSolutions_entry
  \/ call.fn = "countSolutions" /\ searchCounter_enter
  \/ call.fn = "countSolutions" /\ searchCounter_loop
  \/ parse_grid_step
  \/ assign_step
  \/ eliminate_peers_step
  \/ eliminate_units_step

SpecBranch == InitBranch /\ [][NextBranch]_vars

\* ------------------------------------------------- isValid and peers alone

\* The grids isValid is called on: empty, partial, complete, with and without
\* repeated digits.
ValidGrids == CountGrids \cup {EmptyBoard, BoardB}

\* isValid(board, row, col, num) on the arguments drawn in call; the function
\* reads board and writes nothing, so the caller's board is what it was.
isValid_call ==
  /\ call # NULL
  /\ call.fn = "isValid"
  /\ ret = NULL
  /\ ret' = [value |-> isValid(call.board, call.row, call.col, call.num),
             board |-> call.board]
  /\ UNCHANGED <<call, puzzleVars, solverVars, shuffleVars, boardVars, gameVars>>

InitValid ==
  /\ SolverIdle /\ PuzzleIdle /\ ShuffleIdle /\ BoardIdle /\ GameIdle
  /\ rnd = 0
  /\ call \in [fn : {"isValid"}, board : ValidGrids, row : 0..8, col : 0..8, num : 1..9]
  /\ ret = NULL

NextValid == isValid_call

SpecValid == InitValid /\ [][NextValid]_vars

\* peers[x].has(y) and peers[x].size for the squares drawn in call.
peers_lookup ==
  /\ call # NULL
  /\ call.fn = "peers"
  /\ ret = NULL
  /\ ret' = [has |-> includes(peers[call.x], call.y), size |-> Len(peers[call.x])]
  /\ UNCHANGED <<call, puzzleVars, solverVars, shuffleVars, boardVars, gameVars>>

InitTopology ==
  /\ SolverIdle /\ PuzzleIdle /\ ShuffleIdle /\ BoardIdle /\ GameIdle
  /\ rnd = 0
  /\ call \in [fn : {"peers"}, x : SquareSet, y : SquareSet]
  /\ ret = NULL

NextTopology == peers_lookup

SpecTopology == InitTopology /\ [][NextTopology]_vars

\* ------------------------------------------------------ difficulty tiers

\* A JavaScript value of type number | string: a number carries
\* its value (NaN is the number that is no value), a string its characters
\* (decimal digits here).
Num(n) == [type |-> "number", value |-> n]
Str(ds) == [type |-> "string", chars |-> ds]
NaN == [type |-> "NaN"]

\* The decimal value of a string of digits, most significant first.
RECURSIVE decimal(_)
decimal(ds) == IF ds = << >> THEN 0 ELSE 10 * decimal(SubSeq(ds, 1, Len(ds) - 1)) + ds[Len(ds)]

\* parseInt(difficultyValue, 10) on a string of decimal digits.
parseInt10(v) == IF v.chars = << >> THEN NaN ELSE Num(decimal(v.chars))

\* The number a relational operator compares in place of its operand v.
ToNumber(v) ==
  CASE v.type = "number" -> v
    [] v.type = "string" -> Num(decimal(v.chars))
    [] OTHER -> NaN

\* difficultyValue <= bound; a comparison with NaN is false.
lessOrEqual(v, bound) == ToNumber(v) # NaN /\ ToNumber(v).value <= bound

\* getDifficultyName of InfoArea: the name shown for currentDifficulty.
getDifficultyName(difficultyValue) ==
  IF lessOrEqual(difficultyValue, 40) THEN "Easy"
  ELSE IF lessOrEqual(difficultyValue, 50) THEN "Medium"
  ELSE IF lessOrEqual(difficultyValue, 60) THEN "Hard"
  ELSE "Extreme"

\* The null of the type keyof GameRecord | null: no column.
NoColumn == "null"

\* const numericDifficulty of getDifficultyKey.
numericDifficulty(difficultyValue) ==
  IF difficultyValue.type = "string" THEN parseInt10(difficultyValue) ELSE difficultyValue

\* getDifficultyKey: the switch over numericDifficulty compares with ===.
getDifficultyKey(difficultyValue) ==
  LET n == numericDifficulty(difficultyValue)
  IN  CASE n = Num(40) -> "easy_passed"
        [] n = Num(50) -> "medium_passed"
        [] n = Num(60) -> "hard_passed"
        [] n = Num(70) -> "extreme_passed"
        [] OTHER -> NoColumn

\* updateRecordOnWin: the column of the user's record that the call asks the
\* database to increment, NoColumn when it asks for none.
updateRecordOnWin(userId, isOnline, currentDifficulty) ==
  IF ~userId \/ ~isOnline THEN NoColumn
  ELSE getDifficultyKey(currentDifficulty)

\* The name InfoArea shows for the difficulty drawn in call.
getDifficultyName_call ==
  /\ call # NULL
  /\ call.fn = "difficulty"
  /\ ret = NULL
  /\ ret' = [fn |-> "getDifficultyName", name |-> getDifficultyName(call.difficultyValue)]
  /\ UNCHANGED <<call, puzzleVars, solverVars, shuffleVars, boardVars, gameVars>>

\* The record column getDifficultyKey gives for the difficulty drawn in call.
getDifficultyKey_call ==
  /\ call # NULL
  /\ call.fn = "difficulty"
  /\ ret = NULL
  /\ ret' = [fn |-> "getDifficultyKey", key |-> getDifficultyKey(call.difficultyValue)]
  /\ UNCHANGED <<call, puzzleVars, solverVars, shuffleVars, boardVars, gameVars>>

\* A win at the difficulty drawn in call, for a user who is or is not signed
\* in and online.
updateRecordOnWin_call ==
  /\ call # NULL
  /\ call.fn = "difficulty"
  /\ ret = NULL
  /\ ret' = [fn |-> "updateRecordOnWin",
             column |-> updateRecordOnWin(call.userId, call.isOnline, call.difficultyValue)]
  /\ UNCHANGED <<call, puzzleVars, solverVars, shuffleVars, boardVars, gameVars>>

\* The largest number of cells to remove that is drawn as a difficulty.
MaxCellsToRemove == 81

\* The difficulties drawn: the numbers 0..MaxCellsToRemove, and the route
\* parameters "10".."89" as strings of two digits.
DifficultyValues ==
  {Num(n) : n \in 0..MaxCellsToRemove} \cup {Str(<<a, b>>) : a \in 1..8, b \in 0..9}

InitTier ==
  /\ SolverIdle /\ PuzzleIdle /\ ShuffleIdle /\ BoardIdle /\ GameIdle
  /\ rnd = 0
  /\ call \in [fn : {"difficulty"}, difficultyValue : DifficultyValues,
               userId : BOOLEAN, isOnline : BOOLEAN]
  /\ ret = NULL

NextTier == getDifficultyName_call \/ getDifficultyKey_call \/ updateRecordOnWin_call

SpecTier == InitTier /\ [][NextTier]_vars

\* createPuzzle(BoardA, MaxCellsToRemove) from seed 0: a target that no puzzle
\* with one solution reaches, so the loop goes through all 81 squares.
InitDeep ==
  /\ SolverIdle /\ ShuffleIdle /\ BoardIdle /\ GameIdle /\ CallIdle
  /\ solvedBoard = BoardA
  /\ difficulty = MaxCellsToRemove
  /\ rnd = 0
  /\ sharedRows = << >>
  /\ puzzle = NULL /\ potentialRemovals = << >> /\ ri = 1 /\ originalValue = 0
  /\ removedCount = 0 /\ cpc = "idle" /\ result = NULL

SpecDeep == InitDeep /\ [][Next]_vars

\* The run of SpecDeep where its 76th iteration starts: 55 cells are cleared,
\* the 20 other squares tried so far were restored. LateOrder is the shuffle
\* of squares from seed 0.
LateOrder ==
  <<
     <<"E","9">>, <<"E","7">>, <<"C","9">>, <<"C","7">>, <<"F","2">>, <<"B","3">>, <<"E","6">>, <<"D","7">>, <<"G","1">>,
     <<"E","2">>, <<"B","1">>, <<"F","9">>, <<"B","6">>, <<"F","7">>, <<"F","4">>, <<"G","2">>, <<"B","9">>, <<"I","5">>,
     <<"G","5">>, <<"I","8">>, <<"F","6">>, <<"H","2">>, <<"A","6">>, <<"D","4">>, <<"E","4">>, <<"H","4">>, <<"A","9">>,
     <<"I","6">>, <<"G","9">>, <<"G","4">>, <<"G","6">>, <<"E","8">>, <<"B","5">>, <<"A","7">>, <<"G","3">>, <<"I","2">>,
     <<"C","4">>, <<"A","8">>, <<"H","1">>, <<"H","5">>, <<"I","7">>, <<"B","2">>, <<"A","2">>, <<"E","1">>, <<"C","6">>,
     <<"H","3">>, <<"D","5">>, <<"F","1">>, <<"C","1">>, <<"B","4">>, <<"B","8">>, <<"D","6">>, <<"F","8">>, <<"H","9">>,
     <<"D","1">>, <<"F","3">>, <<"H","8">>, <<"I","4">>, <<"A","3">>, <<"G","8">>, <<"I","3">>, <<"F","5">>, <<"G","7">>,
     <<"I","1">>, <<"B","7">>, <<"D","8">>, <<"E","3">>, <<"C","3">>, <<"A","4">>, <<"A","5">>, <<"D","3">>, <<"D","9">>,
     <<"H","7">>, <<"E","5">>, <<"C","5">>, <<"H","6">>, <<"D","2">>, <<"C","8">>, <<"C","2">>, <<"I","9">>, <<"A","1">> >>
LatePuzzle ==
  << <<1,0,3,4,5,0,0,0,0>>, <<0,0,0,0,0,0,1,0,0>>, <<0,8,9,0,2,3,0,5,0>>,
     <<2,1,4,0,0,0,0,0,7>>, <<3,0,5,8,9,0,0,0,0>>, <<0,0,0,0,0,0,0,0,0>>,
     <<0,0,0,0,0,0,9,7,0>>, <<0,0,0,0,7,8,5,3,0>>, <<9,0,0,0,0,0,0,0,2>> >>

\* What createPuzzle holds at that point of the run.
LateState ==
  /\ solvedBoard = BoardA
  /\ difficulty = MaxCellsToRemove
  /\ sharedRows = copyRows(BoardA).shared
  /\ puzzle = LatePuzzle
  /\ potentialRemovals = LateOrder
  /\ array = potentialRemovals /\ si = 0 /\ rnd = 43216
  /\ ri = 76 /\ originalValue = 2 /\ removedCount = 55
  /\ cpc = "loop" /\ result = NULL

\* The last six iterations of that run and its return; the locals of the
\* countSolutions call that returned before are dead and start as idle.
InitLate ==
  /\ SolverIdle /\ BoardIdle /\ GameIdle /\ CallIdle
  /\ LateState

\* The steps of createPuzzle after the shuffle.
NextLate ==
  \/ createPuzzle_remove
  \/ createPuzzle_check
  \/ createPuzzle_finalCheck
  \/ createPuzzle_return
  \/ parse_grid_step
  \/ assign_step
  \/ eliminate_peers_step
  \/ eliminate_units_step
  \/ searchCounter_enter
  \/ searchCounter_loop

SpecLate == InitLate /\ [][NextLate]_vars

\* Holds on SpecDeep: the state SpecLate starts in is the one the full run is
\* in when its 76th iteration starts.
LateStateOnTheRun == (cpc = "loop" /\ ri = 76) => LateState

\* createPuzzle from its start for the small targets, and the end of the run
\* whose target is out of reach.
InitPuzzle == Init \/ InitLate

SpecPuzzle == InitPuzzle /\ [][Next]_vars

\* ------------------------------------------------------------ useSudokuGame

\* The hook's state is the record game: one field per useState and useRef of
\* useSudokuGame that the game logic reads, and the route parameter.  A number
\* | null state holds 0 for null; board cells hold 0 when empty.  draftMarks is
\* the set of <<cellKey, num>> with num in the Set of cellKey.

\* params.difficulty when the route carries none.
Undefined == [type |-> "undefined"]

\* rows[row] + cols[col]
cellKey(row, col) == <<rows[row + 1], cols[col + 1]>>

\* The (row, col) of the double loops for r, for c, in their order.
rowMajor == [k \in 1..81 |-> <<(k - 1) \div 9, (k - 1) % 9>>] \o << >>

\* calculateRemainingCounts: 9 minus the occurrences of each number, at least
\* 0; an empty Map reads as 0 through ?? 0.
calculateRemainingCounts(currentBoard) ==
  [num \in 1..9 |->
     IF currentBoard = NULL THEN 9
     ELSE LET placed == Cardinality({rc \in (1..9) \X (1..9) : currentBoard[rc[1]][rc[2]] = num})
          IN  IF 9 - placed < 0 THEN 0 ELSE 9 - placed] \o << >>

\* calculateConflicts: the keys of the empty cells where num is not valid.
calculateConflicts(num, currentBoard) ==
  IF num = 0 \/ currentBoard = NULL THEN {}
  ELSE {cellKey(rowMajor[k][1], rowMajor[k][2]) :
          k \in {m \in 1..81 :
                   /\ currentBoard[rowMajor[m][1] + 1][rowMajor[m][2] + 1] = 0
                   /\ ~isValid(currentBoard, rowMajor[m][1], rowMajor[m][2], num)}}

\* board.map(...) with one cell replaced.
withCell(b, row, col, v) == [b EXCEPT ![row + 1][col + 1] = v]

\* The values of useState and useRef at the first render.
useState ==
  [board |-> NULL, initialPuzzleState |-> NULL, solution |-> NULL,
   selectedCell |-> NULL, selectedNumber |-> 0, isDraftMode |-> FALSE,
   draftMarks |-> {}, conflicts |-> {}, isGameWon |-> FALSE, isGameOver |-> FALSE,
   livesRemaining |-> 2, hintsRemaining |-> 3, currentDifficulty |-> Num(50),
   remainingCounts |-> <<0, 0, 0, 0, 0, 0, 0, 0, 0>>,
   autoFillingCell |-> NULL, autoFillTimeoutRef |-> NULL,
   difficultyParam |-> Undefined]

\* initializeNewGame(difficulty), with the boards generateBoard and
\* createPuzzle returned.
initializeNewGame(g, difficultyArg, solvedBoardArg, puzzleBoard) ==
  [g EXCEPT !.autoFillTimeoutRef = NULL, !.autoFillingCell = NULL,
            !.isGameWon = FALSE, !.isGameOver = FALSE,
            !.livesRemaining = 2, !.hintsRemaining = 3,
            !.currentDifficulty = difficultyArg,
            !.solution = solvedBoardArg, !.initialPuzzleState = puzzleBoard,
            !.board = puzzleBoard,
            !.selectedCell = NULL, !.selectedNumber = 0, !.isDraftMode = FALSE,
            !.draftMarks = {}, !.conflicts = {},
            !.remainingCounts = calculateRemainingCounts(puzzleBoard)]

\* toggleDraftMode
toggleDraftMode(g) == [g EXCEPT !.isDraftMode = ~g.isDraftMode]

\* handleSelectNumber(num)
handleSelectNumber(g, num) ==
  LET newSelectedNumber == IF num = g.selectedNumber THEN 0 ELSE num
  IN  [g EXCEPT !.selectedNumber = newSelectedNumber, !.selectedCell = NULL,
                !.conflicts = calculateConflicts(newSelectedNumber, g.board)]

\* Fault injection for gameOverAt: the game ends one mistake later.
gameOverBelowZero(newLives) == newLives < 0

\* handleSelectCell: if (newLives <= 0)
gameOverAt(newLives) == newLives <= 0

\* handleSelectCell, an incorrect number: lives and game over.
incorrectPlacement(g) ==
  LET newLives == g.livesRemaining - 1
  IN  IF gameOverAt(newLives)
        THEN [g EXCEPT !.livesRemaining = newLives, !.isGameOver = TRUE,
                       !.selectedCell = NULL, !.selectedNumber = 0,
                       !.isDraftMode = FALSE, !.conflicts = {}]
        ELSE [g EXCEPT !.livesRemaining = newLives]

\* handleSelectCell, draft mode with a number selected: the updater of
\* setDraftMarks adds the mark or deletes it.
toggleDraft(prevDrafts, key, num) ==
  IF <<key, num>> \in prevDrafts THEN prevDrafts \ {<<key, num>>}
  ELSE prevDrafts \cup {<<key, num>>}

\* handleSelectCell, a correct number: the updater of setDraftMarks drops the
\* marks of the filled cell and the marks of the number in its peers.
cleanupDrafts(prevDrafts, key, num) ==
  {m \in prevDrafts : m[1] # key /\ ~(m[2] = num /\ includes(peers[key], m[1]))}

\* Fault injection for incorrectNumber: every number passes as correct.
incorrectNever(g, row, col) == FALSE

\* handleSelectCell: if (selectedNumber !== solution[row][col])
incorrectNumber(g, row, col) == g.selectedNumber # g.solution[row + 1][col + 1]

\* handleSelectCell(row, col)
handleSelectCell(g, row, col) ==
  IF g.initialPuzzleState = NULL \/ g.board = NULL \/ g.isGameWon \/ g.isGameOver THEN g
  ELSE
    LET key == cellKey(row, col)
        currentCellValue == g.board[row + 1][col + 1]
    IN  IF g.initialPuzzleState[row + 1][col + 1] # 0
          THEN [g EXCEPT !.selectedCell = NULL]
        ELSE IF currentCellValue # 0 /\ ~g.isDraftMode
          THEN [g EXCEPT !.selectedCell = <<row, col>>]
        ELSE IF g.isDraftMode
          THEN IF currentCellValue # 0 THEN g
               ELSE IF g.selectedNumber # 0
                 THEN IF key \in g.conflicts THEN g
                      ELSE [g EXCEPT !.draftMarks = toggleDraft(g.draftMarks, key, g.selectedNumber),
                                     !.selectedCell = NULL]
               ELSE [g EXCEPT !.selectedCell = <<row, col>>]
        ELSE IF g.selectedNumber # 0
          THEN IF g.solution = NULL THEN g
               ELSE IF key \in g.conflicts THEN g
               ELSE IF incorrectNumber(g, row, col)
                 THEN incorrectPlacement(g)
               ELSE LET newBoard == withCell(g.board, row, col, g.selectedNumber)
                    IN  [g EXCEPT !.board = newBoard,
                                  !.draftMarks = cleanupDrafts(g.draftMarks, key, g.selectedNumber),
                                  !.conflicts = calculateConflicts(g.selectedNumber, newBoard)]
        ELSE [g EXCEPT !.selectedCell = IF g.selectedCell = <<row, col>> THEN NULL
                                         ELSE <<row, col>>]

\* provideHint: const emptyCells
emptyCells(b) == SelectSeq(rowMajor, LAMBDA rc : b[rc[1] + 1][rc[2] + 1] = 0)

\* Fault injection for hintsAfterHint: a hint is free.
hintsKept(prev) == prev

\* provideHint: setHintsRemaining((prev) => prev - 1)
hintsAfterHint(prev) == prev - 1

\* provideHint, with randomIndex the value of
\* Math.floor(Math.random() * emptyCells.length).
provideHint(g, randomIndex) ==
  IF g.hintsRemaining <= 0 \/ g.isGameWon \/ g.isGameOver \/ g.board = NULL \/ g.solution = NULL
    THEN g
  ELSE IF Len(emptyCells(g.board)) = 0 THEN g
  ELSE LET row == emptyCells(g.board)[randomIndex + 1][1]
           col == emptyCells(g.board)[randomIndex + 1][2]
           correctValue == g.solution[row + 1][col + 1]
       IN  IF correctValue = 0 THEN g
           ELSE LET newBoard == withCell(g.board, row, col, correctValue)
                IN  [g EXCEPT !.board = newBoard,
                              !.hintsRemaining = hintsAfterHint(g.hintsRemaining),
                              !.remainingCounts = calculateRemainingCounts(newBoard),
                              !.conflicts = calculateConflicts(g.selectedNumber, newBoard),
                              !.selectedCell = NULL]

\* saveGameState: what AsyncStorage holds under SAVED_GAME_KEY after the call,
\* sv being what it held before.
saveGameState(g, sv) ==
  IF g.board = NULL \/ g.initialPuzzleState = NULL \/ g.solution = NULL
     \/ g.isGameWon \/ g.isGameOver
    THEN IF g.isGameWon \/ g.isGameOver THEN NULL ELSE sv
    ELSE [board |-> g.board, initialPuzzleState |-> g.initialPuzzleState,
          solution |-> g.solution, livesRemaining |-> g.livesRemaining,
          hintsRemaining |-> g.hintsRemaining, draftMarks |-> g.draftMarks,
          difficulty |-> g.currentDifficulty]

\* Win check: let isComplete
isComplete(b, sol) ==
  \A k \in 1..81 :
    LET r == rowMajor[k][1] + 1
        c == rowMajor[k][2] + 1
    IN  b[r][c] # 0 /\ b[r][c] = sol[r][c]

\* The least member of a non-empty set of integers: the first hit of an
\* ascending loop.
least(S) == CHOOSE x \in S : \A y \in S : x <= y

\* findMissingInUnit: the only empty index of the unit and the first number
\* the unit lacks; num 0 (null) and index -1 when there is no such cell.
findMissingInUnit(unit) ==
  LET empty == {i \in 0..8 : unit[i + 1] = 0}
      absent == {num \in 1..9 : ~includes(unit, num)}
  IN  IF Cardinality(empty) = 1 /\ absent # {}
        THEN [num |-> least(absent), index |-> least(empty)]
        ELSE [num |-> 0, index |-> -1]

\* The units the auto-fill effect builds: a row, a column, a block.
rowUnit(b, r) == b[r + 1]
colUnit(b, c) == [r \in 1..9 |-> b[r][c + 1]] \o << >>
blockUnit(b, blockRow, blockCol) ==
  [k \in 1..9 |-> b[blockRow * 3 + ((k - 1) \div 3) + 1][blockCol * 3 + ((k - 1) % 3) + 1]] \o << >>

\* Auto-fill, last in unit: the cell triggerAutoFill is called for (rows first,
\* then columns, then blocks; the first hit ends the scan), NULL when none.
lastInUnit(b) ==
  LET rowHits == {r \in 0..8 : findMissingInUnit(rowUnit(b, r)).num # 0}
      colHits == {c \in 0..8 : findMissingInUnit(colUnit(b, c)).num # 0}
      blockHits == {k \in 0..8 : findMissingInUnit(blockUnit(b, k \div 3, k % 3)).num # 0}
  IN  IF rowHits # {}
        THEN LET r == least(rowHits)
                 m == findMissingInUnit(rowUnit(b, r))
             IN  [r |-> r, c |-> m.index, num |-> m.num]
      ELSE IF colHits # {}
        THEN LET c == least(colHits)
                 m == findMissingInUnit(colUnit(b, c))
             IN  [r |-> m.index, c |-> c, num |-> m.num]
      ELSE IF blockHits # {}
        THEN LET k == least(blockHits)
                 m == findMissingInUnit(blockUnit(b, k \div 3, k % 3))
             IN  [r |-> (k \div 3) * 3 + (m.index \div 3),
                  c |-> (k % 3) * 3 + (m.index % 3), num |-> m.num]
      ELSE NULL

\* Auto-fill, last remaining spot: the empty cells where num is valid.
validSpots(b, num) ==
  {k \in 1..81 : /\ b[rowMajor[k][1] + 1][rowMajor[k][2] + 1] = 0
                 /\ isValid(b, rowMajor[k][1], rowMajor[k][2], num)}

\* Auto-fill, last remaining spot: the first number with one copy left to place
\* and exactly one valid spot, with that spot; NULL when none.
lastSpot(b, counts) ==
  LET hits == {num \in 1..9 : counts[num] = 1 /\ Cardinality(validSpots(b, num)) = 1}
  IN  IF hits = {} THEN NULL
      ELSE LET num == least(hits)
               k == least(validSpots(b, num))
           IN  [r |-> rowMajor[k][1], c |-> rowMajor[k][2], num |-> num]

\* Has a dependency of an effect changed since the render before (prev, NULL
\* for the first render of a mounted hook)?
changed(prev, g, deps) == prev = NULL \/ \E f \in deps : prev[f] # g[f]

\* The effects of the hook after a render of the state st.game that follows
\* the render of prev.  An effect runs when one of its dependencies has
\* changed and reads the state of its render: save, win check (with
\* updateRecordOnWin for a signed-in user who is online), remaining counts, and
\* the two auto-fill effects, of which the later one replaces the timeout and
\* the highlighted cell of the earlier one.
effects(prev, st) ==
  LET g == st.game
      active == g.board # NULL /\ ~g.isGameWon /\ ~g.isGameOver
      save == changed(prev, g, {"board", "initialPuzzleState", "solution", "livesRemaining",
                                "hintsRemaining", "draftMarks", "isGameWon", "isGameOver",
                                "currentDifficulty"})
      won == /\ changed(prev, g, {"board", "solution", "isGameWon", "isGameOver",
                                  "currentDifficulty"})
             /\ active /\ g.solution # NULL /\ isComplete(g.board, g.solution)
      recount == changed(prev, g, {"board"})
      inUnit == IF /\ changed(prev, g, {"board", "isGameWon", "isGameOver", "autoFillingCell"})
                   /\ active /\ g.autoFillingCell = NULL
                  THEN lastInUnit(g.board) ELSE NULL
      spot == IF /\ changed(prev, g, {"board", "remainingCounts", "isGameWon", "isGameOver",
                                      "autoFillingCell"})
                 /\ active /\ g.autoFillingCell = NULL
                THEN lastSpot(g.board, g.remainingCounts) ELSE NULL
      target == IF spot # NULL THEN spot ELSE inUnit
      counted == IF recount THEN [g EXCEPT !.remainingCounts = calculateRemainingCounts(g.board)]
                 ELSE g
      checked == IF won
                   THEN [counted EXCEPT !.isGameWon = TRUE, !.selectedCell = NULL,
                                        !.selectedNumber = 0, !.isDraftMode = FALSE,
                                        !.conflicts = {}]
                   ELSE counted
      key == updateRecordOnWin(TRUE, TRUE, g.currentDifficulty)
  IN  CHOOSE next \in
        {[game |-> IF t # NULL
                     THEN [c EXCEPT !.autoFillingCell = t, !.autoFillTimeoutRef = t]
                     ELSE c,
          savedGame |-> IF save THEN saveGameState(g, st.savedGame) ELSE st.savedGame,
          increment |-> IF w /\ key # NoColumn THEN key ELSE st.increment] :
           t \in {target}, c \in {checked}, w \in {won}} : TRUE

\* Renders and effects until an effect sets no state.
RECURSIVE settle(_, _)
settle(prev, st) ==
  CHOOSE final \in {IF next = now THEN now ELSE settle(now.game, next) :
                      now \in {st}, next \in {effects(prev, st)}} : TRUE

\* The callback of the auto-fill timeout: the updater of setBoard fills the
\* cell if it is still empty.
autoFillTimeout(g) ==
  LET t == g.autoFillTimeoutRef
  IN  [g EXCEPT !.board = IF g.board = NULL THEN NULL
                          ELSE IF g.board[t.r + 1][t.c + 1] = 0
                            THEN withCell(g.board, t.r, t.c, t.num)
                          ELSE g.board,
                !.autoFillingCell = NULL, !.autoFillTimeoutRef = NULL]

\* loadGame, the effect for the initial load of a hook mounted under the route
\* parameter param, with sv the saved item: a new game when the route names a
\* difficulty or nothing is saved, the saved game otherwise.
loadGame(param, sv, solvedBoardArg, puzzleBoard) ==
  LET g == [useState EXCEPT !.difficultyParam = param]
  IN  IF param # Undefined THEN initializeNewGame(g, param, solvedBoardArg, puzzleBoard)
      ELSE IF sv # NULL
        THEN [g EXCEPT !.board = sv.board, !.initialPuzzleState = sv.initialPuzzleState,
                       !.solution = sv.solution, !.livesRemaining = sv.livesRemaining,
                       !.hintsRemaining = sv.hintsRemaining,
                       !.currentDifficulty = sv.difficulty, !.draftMarks = sv.draftMarks,
                       !.remainingCounts = calculateRemainingCounts(sv.board)]
      ELSE initializeNewGame(g, Num(50), solvedBoardArg, puzzleBoard)

\* startNewGame: initializeNewGame(difficultyToUse ?? 50)
startNewGame(g, solvedBoardArg, puzzleBoard) ==
  initializeNewGame(g, IF g.difficultyParam = Undefined THEN Num(50) ELSE g.difficultyParam,
                    solvedBoardArg, puzzleBoard)

\* The state after a handler left the hook's state g, the render before having
\* been that of prev: the next render and the effects it starts, with the
\* request they send to the database, if any.
Render(prev, g) ==
  \E st \in {settle(prev, [game |-> g, savedGame |-> savedGame, increment |-> NoColumn])} :
    /\ game' = st.game
    /\ savedGame' = st.savedGame
    /\ increment' = st.increment
    /\ UNCHANGED <<solverVars, puzzleVars, shuffleVars, boardVars, callVars>>

\* The puzzles a game starts from: BoardA as the solved board, and a puzzle
\* with a unique solution that createPuzzle can return for it.
GamePuzzles ==
  {[solvedBoard |-> BoardA,
    puzzleBoard |-> Without(BoardA, {<<1, 1>>, <<1, 2>>, <<2, 7>>, <<4, 1>>})]}

\* The cells the player taps (one empty in the puzzle, one fixed), the numbers
\* of the number pad the player selects, and the route parameters.
TapCells == {<<0, 0>>, <<0, 2>>}
NumberPad == {1, 2}
DifficultyParams == {Undefined, Str(<<4, 0>>)}

loadGame_effect ==
  \E param \in DifficultyParams, pz \in GamePuzzles :
    Render(NULL, loadGame(param, savedGame, pz.solvedBoard, pz.puzzleBoard))

startNewGame_event ==
  \E pz \in GamePuzzles : Render(game, startNewGame(game, pz.solvedBoard, pz.puzzleBoard))

toggleDraftMode_event == Render(game, toggleDraftMode(game))

handleSelectNumber_event == \E num \in NumberPad : Render(game, handleSelectNumber(game, num))

handleSelectCell_event ==
  \E rc \in TapCells : Render(game, handleSelectCell(game, rc[1], rc[2]))

provideHint_event ==
  LET length == IF game.board = NULL THEN 0 ELSE Len(emptyCells(game.board))
  IN  \E randomIndex \in 0..(IF length = 0 THEN 0 ELSE length - 1) :
        Render(game, provideHint(game, randomIndex))

autoFillTimeout_fire ==
  /\ game.autoFillTimeoutRef # NULL
  /\ Render(game, autoFillTimeout(game))

\* The hook after its first render, before the initial load.
InitGame ==
  /\ SolverIdle /\ PuzzleIdle /\ ShuffleIdle /\ BoardIdle /\ CallIdle
  /\ rnd = 0
  /\ game = settle(NULL, [game |-> useState, savedGame |-> NULL, increment |-> NoColumn]).game
  /\ savedGame = NULL
  /\ increment = NoColumn

NextGame ==
  \/ loadGame_effect
  \/ startNewGame_event
  \/ toggleDraftMode_event
  \/ handleSelectNumber_event
  \/ handleSelectCell_event
  \/ provideHint_event
  \/ autoFillTimeout_fire

SpecGame == InitGame /\ [][NextGame]_vars

\* initializeNewGame, lines 690-703: let cellsToRemove = 50, then the number
\* parsed from a string argument, or the number argument.
cellsToRemoveOf(difficultyArg) ==
  IF difficultyArg.type = "string"
    THEN IF parseInt10(difficultyArg) = NaN THEN Num(50) ELSE parseInt10(difficultyArg)
    ELSE difficultyArg

\* initializeNewGame, line 706: cellsToRemove = currentDifficulty.  The callback
\* reads the state of the render that created it (rendered), in which the
\* setCurrentDifficulty(difficulty) of this call has not happened.
cellsToRemove(rendered, difficultyArg) == rendered.currentDifficulty

\* The puzzles of the games with the call of createPuzzle recorded: the same
\* three cells cleared from BoardA and from BoardB; 2 can be placed at A1 by
\* the rules, where the solutions hold 1.
NewGameCleared == {<<1, 1>>, <<1, 2>>, <<4, 1>>}
NewGamePuzzles ==
  {[solvedBoard |-> b, puzzleBoard |-> Without(b, NewGameCleared)] : b \in SolvedBoards}

\* A call initializeNewGame(difficultyArg) made by the callback of the render
\* of rendered: createPuzzle's parameters solvedBoard and difficulty are
\* recorded, pz is what generateBoard and createPuzzle return.
initializeNewGame_call(prev, rendered, difficultyArg, pz) ==
  \E st \in {settle(prev, [game |-> initializeNewGame(rendered, difficultyArg,
                                                      pz.solvedBoard, pz.puzzleBoard),
                           savedGame |-> savedGame, increment |-> NoColumn])} :
    /\ game' = st.game
    /\ savedGame' = st.savedGame
    /\ increment' = st.increment
    /\ solvedBoard' = pz.solvedBoard
    /\ difficulty' = cellsToRemove(rendered, difficultyArg)
    /\ UNCHANGED <<puzzle, sharedRows, potentialRemovals, ri, originalValue, removedCount,
                   cpc, result>>
    /\ UNCHANGED <<solverVars, shuffleVars, boardVars, callVars>>

\* The hook at its first render under the route parameter param.
mounted(param) == [useState EXCEPT !.difficultyParam = param]

\* loadGame, when it starts a new game: initializeNewGame(difficultyToUse) for
\* a route with a difficulty, initializeNewGame() when nothing is saved.
loadGame_new ==
  \E param \in DifficultyParams, pz \in NewGamePuzzles :
    /\ param # Undefined \/ savedGame = NULL
    /\ initializeNewGame_call(NULL, mounted(param),
                              IF param # Undefined THEN param ELSE Num(50), pz)

\* loadGame, when it restores the saved game.
loadGame_saved ==
  /\ savedGame # NULL
  /\ Render(NULL, loadGame(Undefined, savedGame, NULL, NULL))

\* startNewGame: initializeNewGame(difficultyToUse ?? 50)
startNewGame_new ==
  \E pz \in NewGamePuzzles :
    initializeNewGame_call(game, game,
                           IF game.difficultyParam = Undefined THEN Num(50)
                           ELSE game.difficultyParam, pz)

NextNewGame ==
  \/ loadGame_new
  \/ loadGame_saved
  \/ startNewGame_new
  \/ toggleDraftMode_event
  \/ handleSelectNumber_event
  \/ handleSelectCell_event
  \/ provideHint_event
  \/ autoFillTimeout_fire

SpecNewGame == InitGame /\ [][NextNewGame]_vars

\* ------------------------------------------------- what a grid's cells say

\* The rules of Sudoku read off a 9x9 grid of 0..9 (0 is an empty cell),
\* independently of the solver: rows, columns and boxes as sets of cells.
Cells == (1..9) \X (1..9)
RowCells(r) == {rc \in Cells : rc[1] = r}
ColCells(c) == {rc \in Cells : rc[2] = c}
BoxCells(r, c) ==
  {rc \in Cells : (rc[1] - 1) \div 3 = (r - 1) \div 3 /\ (rc[2] - 1) \div 3 = (c - 1) \div 3}
Houses ==
  {RowCells(r) : r \in 1..9} \cup {ColCells(c) : c \in 1..9}
    \cup {BoxCells(r, c) : r \in {1, 4, 7}, c \in {1, 4, 7}}

\* The digits a cell at (r, c) sees in its row, its column and its box.
Seen(g, r, c) ==
  {g[rc[1]][rc[2]] : rc \in RowCells(r) \cup ColCells(c) \cup BoxCells(r, c)} \ {0}

FilledCells(g) == {rc \in Cells : g[rc[1]][rc[2]] # 0}
Filled(g) == Cardinality(FilledCells(g))

\* No digit occurs twice in a row, a column or a box.
NoDuplicate(g) ==
  \A h \in Houses : \A x \in h, y \in h :
     x # y /\ g[x[1]][x[2]] # 0 => g[x[1]][x[2]] # g[y[1]][y[2]]

\* Every row, column and box holds each of 1..9 exactly once.
CompleteAndValid(g) ==
  \A h \in Houses : {g[rc[1]][rc[2]] : rc \in h} = 1..9

\* The empty cells of g in row-major order.
EmptyCells(g) ==
  SelectSeq([k \in 1..81 |-> <<((k - 1) \div 9) + 1, ((k - 1) % 9) + 1>>] \o << >>,
            LAMBDA rc : g[rc[1]][rc[2]] = 0)

\* All ways to fill the cells es of g, one cell at a time, with a digit the
\* cell does not see.
RECURSIVE Fill(_, _)
Fill(g, es) ==
  IF es = << >> THEN {g}
  ELSE UNION {Fill([g EXCEPT ![es[1][1]][es[1][2]] = d], Tail(es)) :
                d \in (1..9) \ Seen(g, es[1][1], es[1][2])}

\* The valid completions of g: the complete valid grids that agree with g on
\* its filled cells.
Completions(g) == IF NoDuplicate(g) THEN Fill(g, EmptyCells(g)) ELSE {}

\* The cells of rc's row, column and box, per cell.
Around == [rc \in Cells |-> RowCells(rc[1]) \cup ColCells(rc[2]) \cup BoxCells(rc[1], rc[2])]

\* The digits that no cell of rc's row, column or box holds.
Free(g, rc) == (1..9) \ {g[x[1]][x[2]] : x \in Around[rc]}

\* g with every empty cell that has one candidate filled with it.
Forced(g) ==
  [r \in 1..9 |->
     [c \in 1..9 |->
        IF g[r][c] = 0 /\ Cardinality(Free(g, <<r, c>>)) = 1
          THEN CHOOSE d \in Free(g, <<r, c>>) : TRUE
          ELSE g[r][c]] \o << >>] \o << >>

\* An empty cell of g with the fewest candidates, m or more.
RECURSIVE Fewest(_, _, _)
Fewest(g, es, m) ==
  IF \E rc \in es : Cardinality(Free(g, rc)) = m
    THEN CHOOSE rc \in es : Cardinality(Free(g, rc)) = m
    ELSE Fewest(g, es, m + 1)

\* The number of valid completions of a grid g without duplicates, counted up
\* to cap: forced cells are filled, then an empty cell with the fewest
\* candidates is tried with each of them.
RECURSIVE CompletionsFrom(_, _), CompletionsOver(_, _, _, _)
CompletionsFrom(g, cap) ==
  IF cap <= 0 THEN 0
  ELSE LET es == {rc \in Cells : g[rc[1]][rc[2]] = 0}
       IN  IF es = {} THEN 1
           ELSE IF \E rc \in es : Free(g, rc) = {} THEN 0
           ELSE IF \E rc \in es : Cardinality(Free(g, rc)) = 1
             THEN CHOOSE t \in {IF NoDuplicate(h) THEN CompletionsFrom(h, cap) ELSE 0 :
                                  h \in {Forced(g)}} : TRUE
           ELSE CHOOSE t \in {CompletionsOver(g, rc, Free(g, rc), cap) :
                                rc \in {Fewest(g, es, 2)}} : TRUE

CompletionsOver(g, rc, ds, cap) ==
  IF ds = {} \/ cap <= 0 THEN 0
  ELSE LET d == CHOOSE x \in ds : \A y \in ds : x <= y
       IN  CHOOSE t \in {n + CompletionsOver(g, rc, ds \ {d}, cap - n) :
                           n \in {CompletionsFrom(With(g, rc[1], rc[2], d), cap)}} : TRUE

\* min(cap, the number of valid completions of g).
CompletionsUpTo(g, cap) == IF NoDuplicate(g) THEN CompletionsFrom(g, cap) ELSE 0

\* ------------------------------------------------------------ createPuzzle

Returned == cpc = "returned" /\ result # NULL

\* C1: every puzzle createPuzzle returns has exactly one solution; the call
\* countSolutions(puzzle, 2) made on it returned 1.
PuzzleUniqueness ==
  Returned =>
    /\ board = result /\ limit = 2 /\ pc = "done" /\ count = 1
    /\ Cardinality(Completions(result)) = 1

\* A puzzle is returned in a run where one removal had to be put back.
PuzzleUniquenessWitness == Returned /\ removedCount < ri /\ removedCount >= 3

\* C2: the one solution of a returned puzzle is the solved board createPuzzle
\* was given, cell for cell.
PuzzleConsistency == Returned => Completions(result) = {solvedBoard}

\* A puzzle with at least three cleared cells is returned.
PuzzleConsistencyWitness == Returned /\ Filled(result) <= 78

\* C3: at every step of createPuzzle and in its result, each cell of the
\* working puzzle is empty or holds the solved board's digit.
SubsetInvariant ==
  /\ puzzle # NULL =>
       \A rc \in Cells : puzzle[rc[1]][rc[2]] \in {0, solvedBoard[rc[1]][rc[2]]}
  /\ result # NULL =>
       \A rc \in Cells : result[rc[1]][rc[2]] \in {0, solvedBoard[rc[1]][rc[2]]}

\* In the loop, after an iteration that restored its cell, with cells cleared.
SubsetInvariantWitness ==
  cpc = "loop" /\ removedCount + 1 < ri /\ Filled(puzzle) = 81 - removedCount
    /\ removedCount >= 1

\* C4: createPuzzle never clears more than difficulty cells: a returned puzzle
\* has at least 81 - difficulty filled cells, and exactly that many when the
\* loop stopped on the target.
RemovalBound ==
  Returned =>
    /\ Filled(result) >= 81 - difficulty
    /\ 81 - removedCount <= targetRemaining(difficulty) => Filled(result) = 81 - difficulty

\* ---------------------------------------------------------- countSolutions

Min(a, b) == IF a <= b THEN a ELSE b

\* C7: for every non-negative limit, countSolutions returns a count between 0
\* and limit.
CountWithinLimit == pc = "done" => count >= 0 /\ count <= limit

\* C8: for limit >= 1, countSolutions returns min(N, limit), N the number of
\* valid completions of the grid.
CountIsMin ==
  pc = "done" /\ limit >= 1 => count = Min(Cardinality(Completions(board)), limit)

\* The count stopped at a limit of at least 2 on a grid with more completions.
CountIsMinWitness ==
  pc = "done" /\ limit >= 2 /\ count = limit /\ Cardinality(Completions(board)) > limit

\* C9: on a grid in which a digit occurs twice in a row, a column or a box,
\* parse_grid returns null and countSolutions returns 0.
DuplicateContradiction ==
  pc = "done" /\ ~NoDuplicate(board) => initialValues = NULL /\ count = 0

\* parse_grid gave up on a grid with a repeated digit and with empty cells,
\* after assigning cells of more than one row.
DuplicateContradictionWitness ==
  pc = "done" /\ ~NoDuplicate(board) /\ initialValues = NULL /\ Filled(board) < 81 /\ pk > 10

\* ----------------------------------------------------------- generateBoard

\* C5: the grid generateBoard returns is complete and valid: every row, every
\* column and every box holds each of 1..9 exactly once.
SolvedGridValidity == gpc = "returned" => CompleteAndValid(gboard)

\* generateBoard has returned a grid whose first row the shuffles reordered.
SolvedGridValidityWitness ==
  gpc = "returned" /\ gboard[1] # <<1, 2, 3, 4, 5, 6, 7, 8, 9>> /\ Filled(gboard) = 81

\* ------------------------------------------------------ isValid and peers

\* C6: isValid(g, r, c, d) is false exactly when d occurs in row r, column c
\* or the box of (r, c) of g, and g is not modified.
PlacementValidity ==
  ret # NULL /\ call.fn = "isValid" =>
    /\ ret.value = FALSE <=> call.num \in Seen(call.board, call.row + 1, call.col + 1)
    /\ ret.board = call.board

\* isValid returned false for a digit that is in the box of the cell only.
PlacementValidityWitness ==
  /\ ret # NULL /\ call.fn = "isValid" /\ ret.value = FALSE
  /\ \A rc \in RowCells(call.row + 1) \cup ColCells(call.col + 1) :
       call.board[rc[1]][rc[2]] # call.num
  /\ Filled(call.board) < 81

\* C10: each of the 81 squares has exactly 20 peers, y is a peer of x exactly
\* when x is a peer of y, and no square is its own peer.
TopologySymmetry ==
  ret # NULL /\ call.fn = "peers" =>
    /\ Len(squares) = 81 /\ Cardinality(SquareSet) = 81
    /\ ret.size = 20
    /\ Cardinality({peers[call.x][k] : k \in 1..Len(peers[call.x])}) = 20
    /\ ret.has <=> includes(peers[call.y], call.x)
    /\ call.x = call.y => ~ret.has

\* C3 is a peer of A1 through their box alone.
TopologySymmetryWitness ==
  ret # NULL /\ call.fn = "peers" /\ call.x = <<"A", "1">> /\ call.y = <<"C", "3">> /\ ret.has

\* ------------------------------------------------------------- propagation

\* The digits of a candidate string.
Candidates(str) == {str[k] : k \in 1..Len(str)}

\* The top frame is about to call eliminate(values, PendingSquare, PendingDigit).
HasPending ==
  /\ frames # << >>
  /\ \/ Top(frames).op = "assign" /\ Top(frames).k <= Len(Top(frames).other)
     \/ Top(frames).op = "peers" /\ Top(frames).k <= Len(peers[Top(frames).s])
PendingSquare ==
  IF Top(frames).op = "assign" THEN Top(frames).s ELSE peers[Top(frames).s][Top(frames).k]
PendingDigit ==
  IF Top(frames).op = "assign" THEN Top(frames).other[Top(frames).k] ELSE Top(frames).other[1]

\* C11: no step of assign/eliminate adds a digit to a square; eliminating a
\* digit a square has already lost changes nothing and returns at once; and
\* while and when a call eliminate(values, s, d) runs and returns, d is absent
\* from s, so repeating the call is such a no-op.
MonotonicPropagation ==
  /\ [](\A n \in 1..Len(frames) :
          frames[n].op \in {"peers", "units"} =>
            ~includes(values[frames[n].s], frames[n].d))
  /\ [][frames # << >> /\ values' # NULL =>
          \A s \in SquareSet : Candidates(values'[s]) \subseteq Candidates(values[s])]_vars
  /\ [][HasPending /\ ~includes(values[PendingSquare], PendingDigit) =>
          values' = values /\ frames' = Advance(frames)]_vars

\* During the search, a call nested in the propagation is about to eliminate a
\* digit its square has already lost.
MonotonicPropagationWitness ==
  /\ HasPending /\ ~includes(values[PendingSquare], PendingDigit)
  /\ Top(frames).depth >= 2 /\ pc = "search_call"

\* ------------------------------------------------------------ frame effect

\* C12: no step of createPuzzle or of the countSolutions calls it makes changes
\* the solved board it was given; while countSolutions runs, the grid it was
\* passed (its board, the caller's puzzle) is not written; and the puzzle
\* createPuzzle returns shares no row with the solved board.
ArgumentsUntouched ==
  /\ [][solvedBoard' = solvedBoard]_vars
  /\ [][(pc \in {"parse", "search_call", "search_loop"}) =>
          (board' = board /\ puzzle' = puzzle)]_vars
  /\ [](cpc = "returned" => \A r \in 1..9 : ~sharedRows[r])
  /\ [](Returned => result = puzzle)

\* createPuzzle has returned a puzzle with two cells cleared from a solved
\* board that is still complete.
ArgumentsUntouchedWitness ==
  Returned /\ Filled(solvedBoard) = 81 /\ Filled(result) = 79 /\ board = result

\* -------------------------------------------------------- difficulty tiers

\* The tier of a number of cells to remove by the documented thresholds.
Tier(n) == IF n <= 40 THEN "easy" ELSE IF n <= 50 THEN "medium" ELSE IF n <= 60 THEN "hard" ELSE "extreme"

\* The tier a displayed name denotes, and the tier a record column counts.
TierOfName(name) ==
  CASE name = "Easy" -> "easy" [] name = "Medium" -> "medium"
    [] name = "Hard" -> "hard" [] name = "Extreme" -> "extreme"
TierOfKey(key) ==
  CASE key = "easy_passed" -> "easy" [] key = "medium_passed" -> "medium"
    [] key = "hard_passed" -> "hard" [] key = "extreme_passed" -> "extreme"
    [] OTHER -> "none"

\* C13: for every difficulty, the name displayed denotes the tier of the
\* thresholds (<=40 easy, <=50 medium, <=60 hard, else extreme), the record
\* column getDifficultyKey gives denotes the same tier, and a win of a signed-in
\* online user asks to increment the column of that tier.
TierConsistency ==
  ret # NULL /\ call.fn = "difficulty" =>
    LET n == ToNumber(call.difficultyValue).value
    IN  /\ ret.fn = "getDifficultyName" => TierOfName(ret.name) = Tier(n)
        /\ ret.fn = "getDifficultyKey" =>
             TierOfKey(ret.key) = TierOfName(getDifficultyName(call.difficultyValue))
        /\ ret.fn = "updateRecordOnWin" /\ call.userId /\ call.isOnline =>
             TierOfKey(ret.column) = TierOfName(getDifficultyName(call.difficultyValue))

\* ------------------------------------------------------------------- hints

\* The game is in progress: a board is there and the game is neither won nor
\* over.
InProgress == game.board # NULL /\ game.solution # NULL /\ ~game.isGameWon /\ ~game.isGameOver

\* The cells (1-based) where two boards differ.
Differing(b1, b2) == {rc \in Cells : b1[rc[1]][rc[2]] # b2[rc[1]][rc[2]]}

\* The values Math.floor(Math.random() * emptyCells.length) can take in the
\* current state (0 when there is no empty cell).
HintIndexes ==
  IF game.board = NULL \/ Len(emptyCells(game.board)) = 0 THEN {0}
  ELSE 0..(Len(emptyCells(game.board)) - 1)

\* C14: in a game in progress with hints left and an empty cell, provideHint
\* sets exactly one cell, an empty one, to the solution's digit and lowers
\* hintsRemaining by one; with hintsRemaining at 0 it changes nothing;
\* hintsRemaining stays within 0..3, and only a new game raises it (to 3, on
\* the initial puzzle), so at most 3 hints are applied in a game.
HintContract ==
  /\ [](game.hintsRemaining \in 0..3)
  /\ [](\A randomIndex \in HintIndexes : \A hinted \in {provideHint(game, randomIndex)} :
          /\ InProgress /\ game.hintsRemaining > 0 /\ Len(emptyCells(game.board)) > 0 =>
               /\ Cardinality(Differing(game.board, hinted.board)) = 1
               /\ \A rc \in Differing(game.board, hinted.board) :
                    /\ game.board[rc[1]][rc[2]] = 0
                    /\ hinted.board[rc[1]][rc[2]] = game.solution[rc[1]][rc[2]]
               /\ hinted.hintsRemaining = game.hintsRemaining - 1
          /\ game.hintsRemaining = 0 => hinted = game)
  /\ [][game'.hintsRemaining > game.hintsRemaining =>
          (game'.hintsRemaining = 3 /\ game'.board = game'.initialPuzzleState)]_vars

\* All three hints of a game in progress are used, and a cell is still empty.
HintContractWitness ==
  InProgress /\ game.hintsRemaining = 0 /\ Len(emptyCells(game.board)) > 0

\* --------------------------------------------------------------- conflicts

\* The empty cells (1-based) of the board where isValid rejects the selected
\* number.
Rejected ==
  {rc \in Cells : /\ game.board[rc[1]][rc[2]] = 0
                  /\ ~isValid(game.board, rc[1] - 1, rc[2] - 1, game.selectedNumber)}

\* C15: whenever a number is selected in a game, conflicts holds exactly the
\* keys of the empty cells of the board where isValid rejects the selected
\* number, and tapping such a cell in a game in progress costs no life.
ConflictsExact ==
  game.board # NULL /\ game.selectedNumber # 0 =>
    /\ game.conflicts = {cellKey(rc[1] - 1, rc[2] - 1) : rc \in Rejected}
    /\ InProgress =>
         \A rc \in Rejected :
           handleSelectCell(game, rc[1] - 1, rc[2] - 1).livesRemaining = game.livesRemaining

\* ------------------------------------------------------------------- lives

\* C16: livesRemaining is within 0..2 (its initial value), a call of
\* handleSelectCell lowers it by at most one, isGameOver holds exactly when
\* livesRemaining is 0, the game is never both over and won, and once it is
\* over handleSelectCell changes nothing, whichever cell is tapped.
LivesContract ==
  /\ game.livesRemaining \in 0..2
  /\ game.isGameOver <=> game.livesRemaining = 0
  /\ ~(game.isGameOver /\ game.isGameWon)
  /\ \A rc \in Cells :
       /\ handleSelectCell(game, rc[1] - 1, rc[2] - 1).livesRemaining >= game.livesRemaining - 1
       /\ game.isGameOver => handleSelectCell(game, rc[1] - 1, rc[2] - 1) = game

\* The game is over: the second incorrect number took the last life.
LivesContractWitness == game.isGameOver /\ game.livesRemaining = 0 /\ game.board # NULL

\* ------------------------------------------------------- returned stores

\* Every square of the store has a candidate.
NonEmpty(vals) == \A s \in SquareSet : Len(vals[s]) >= 1

\* Every unit has a square admitting each digit.
UnitsAdmit(vals) ==
  \A n \in 1..Len(unitlist) : \A k \in 1..Len(digits) :
    \E m \in 1..Len(unitlist[n]) : includes(vals[unitlist[n][m]], digits[k])

\* The top call, an assign past its loop or an eliminate past its loop (3), is
\* about to return values.
Returning ==
  /\ frames # << >>
  /\ \/ Top(frames).op = "assign" /\ Top(frames).k > Len(Top(frames).other)
     \/ Top(frames).op = "units" /\ Top(frames).k > Len(units[Top(frames).s])

\* The eliminate the top frame is about to call returns values at once.
ReturningAtOnce == HasPending /\ ~includes(values[PendingSquare], PendingDigit)

\* The assign called by parse_grid or searchCounter is about to return values.
OutermostReturning == Returning /\ Len(frames) = 1

\* No propagation runs: values is what the last assign of parse_grid returned,
\* what parse_grid returns, or what searchCounter is entered with.
Propagated ==
  frames = << >> /\ values # NULL /\ pc \in {"parse", "search_call"}

\* C17 as stated: whenever parse_grid, assign or eliminate returns a store,
\* nested calls included, and whenever searchCounter is entered with one, every
\* square has a candidate and every unit has a place for every digit.
StoreWellFormedAtEveryReturn ==
  (Returning \/ ReturningAtOnce \/ Propagated) =>
    (NonEmpty(values) /\ UnitsAdmit(values))

\* C17: every store a call of assign or eliminate returns has a candidate in
\* every square; the stores returned by parse_grid and by the assign calls
\* parse_grid and searchCounter make, and the stores searchCounter is entered
\* with, have in every unit a place for every digit as well.
StoreWellFormed ==
  /\ (Returning \/ ReturningAtOnce \/ Propagated) => NonEmpty(values)
  /\ (OutermostReturning \/ Propagated) => UnitsAdmit(values)

\* searchCounter is entered, below another searchCounter, with an unsolved
\* store assign returned.
StoreWellFormedWitness ==
  /\ Propagated /\ pc = "search_call" /\ sframes # << >>
  /\ ~solved(values)

\* Every square with one candidate d has no peer admitting d.
SinglesExclusive(vals) ==
  \A s \in SquareSet :
    Len(vals[s]) = 1 =>
      \A m \in 1..Len(peers[s]) : ~includes(vals[peers[s][m]], vals[s][1])

\* C18 as stated: whenever parse_grid, assign or eliminate returns a store,
\* nested calls included, a square with the single candidate d has no peer
\* that admits d.
SinglesPropagatedAtEveryReturn ==
  (Returning \/ ReturningAtOnce \/ Propagated) => SinglesExclusive(values)

\* C18: in the stores returned by parse_grid and by the assign calls
\* parse_grid and searchCounter make, and in the stores searchCounter is
\* entered with, a square with the single candidate d has no peer that admits d.
SinglesPropagated ==
  (OutermostReturning \/ Propagated) => SinglesExclusive(values)

\* The assign searchCounter made is about to return a store that is not
\* solved, in which some square has a single candidate.
SinglesPropagatedWitness ==
  /\ OutermostReturning /\ pc = "search_call" /\ ~solved(values)
  /\ \E s \in SquareSet : Len(values[s]) = 1

\* ------------------------------------------------------ branching square

\* The row-major position of a square, 1..81.
Position(s) == CHOOSE k \in 1..Len(squares) : squares[k] = s

\* The squares with more than one candidate.
Unsolved(vals) == {s \in SquareSet : Len(vals[s]) > 1}

\* The first square in row-major order among the unsolved squares with the
\* fewest candidates; NULL when every square is solved.
BranchingSquare(vals) ==
  IF Unsolved(vals) = {} THEN NULL
  ELSE CHOOSE s \in Unsolved(vals) :
         \A t \in Unsolved(vals) :
           \/ Len(vals[s]) < Len(vals[t])
           \/ Len(vals[s]) = Len(vals[t]) /\ Position(s) <= Position(t)

\* C20: on every store, find_min_square returns the first square in row-major
\* order among the squares with the fewest candidates above one, and no square
\* only when no square has more than one candidate; the square every
\* searchCounter call branches on is that square of its store.
MinimumRemainingValues ==
  /\ values # NULL => find_min_square(values) = BranchingSquare(values)
  /\ \A n \in 1..Len(sframes) :
       sframes[n].s = BranchingSquare(sframes[n].values)

\* searchCounter has just chosen its square: it passed over an earlier square
\* with more candidates, and a later square has as few candidates.
MinimumRemainingValuesWitness ==
  /\ pc = "search_loop" /\ sframes # << >> /\ Top(sframes).k = 1
  /\ \E t \in Unsolved(Top(sframes).values) :
       /\ Position(t) < Position(Top(sframes).s)
       /\ Len(Top(sframes).values[t]) > Len(Top(sframes).values[Top(sframes).s])
  /\ \E t \in Unsolved(Top(sframes).values) :
       /\ Position(t) > Position(Top(sframes).s)
       /\ Len(Top(sframes).values[t]) = Len(Top(sframes).values[Top(sframes).s])

\* ------------------------------------------------------------------ solve

\* solve has returned; values is what it returned.
SolveReturned == pc = "done"

\* C19: solve returns a store, every square of it with one candidate, exactly
\* when the grid has a valid completion, and null otherwise; the grid of a
\* returned store has 1..9 once in every row, column and box and agrees with
\* every filled cell of the input.
SolveOneCorrect ==
  SolveReturned =>
    /\ (values # NULL) <=> (Completions(board) # {})
    /\ values # NULL =>
         /\ solved(values)
         /\ CompleteAndValid(gridValuesToBoard(values))
         /\ \A rc \in FilledCells(board) :
              gridValuesToBoard(values)[rc[1]][rc[2]] = board[rc[1]][rc[2]]
         /\ gridValuesToBoard(values) \in Completions(board)

\* solve has returned, after a search, a completion of a grid that has more
\* than one.
SolveOneCorrectWitness ==
  /\ SolveReturned /\ values # NULL /\ board = SparseGrid
  /\ Cardinality(Completions(board)) > 1

\* ------------------------------------------------------- stop at the limit

\* searchCounter is running: countSolutions has parsed its grid and has not
\* returned.
Searching == pc \in {"search_call", "search_loop"}

\* C21: once count equals limit, no step of the search tries a digit or runs
\* an assign: the store and both call stacks stay as they are, or the stack of
\* searchCounter is dropped on the way out.
StopsAtLimit ==
  [][(Searching /\ count = limit) =>
       (values' = values /\ frames' = frames /\ sframes' \in {sframes, << >>})]_vars

\* ------------------------------------------------------- sibling branches

\* C22: while a call of search or searchCounter is on the stack, the store it
\* was entered with and the square it chose stay as they were, whatever its
\* branches do; and every branch starts from that store.
BranchesOnCopy ==
  /\ [][\A n \in 1..Len(sframes) :
          n <= Len(sframes') =>
            (sframes'[n].values = sframes[n].values /\ sframes'[n].s = sframes[n].s)]_vars
  /\ [][Len(sframes') > Len(sframes) => Top(sframes').values = values]_vars
  /\ [][(pc = "search_loop" /\ pc' = "search_call") =>
          values' = Top(sframes).values]_vars

\* The first branch of a call has ended in a contradiction after its
\* propagation changed its store, and the call has a digit left to try.
BranchesOnCopyWitness ==
  /\ pc = "search_loop" /\ values = NULL /\ sframes # << >>
  /\ Top(sframes).k = 2 /\ Top(sframes).k <= Len(Top(sframes).values[Top(sframes).s])

\* ----------------------------------------------------------- removal loop

\* The loop of createPuzzle runs or has run.
Looping == cpc \in {"loop", "check", "final", "final_wait", "returned"}

\* The 1-based cell of the iteration the loop is in.
LoopCell ==
  <<indexOf(rows, potentialRemovals[ri][1]) + 1, indexOf(cols, potentialRemovals[ri][2]) + 1>>

\* C23: the loop goes once through a list that holds each of the 81 squares
\* once; the cell of an iteration stays cleared exactly when
\* countSolutions(puzzle, 2) returned 1 and otherwise gets its digit back, no
\* other cell changing; and removedCount is the number of cleared cells of
\* puzzle.
RemovalLoop ==
  /\ [](cpc = "loop" /\ ri = 1 =>
          /\ Len(potentialRemovals) = 81
          /\ {potentialRemovals[k] : k \in 1..81} = SquareSet)
  /\ [][Looping => potentialRemovals' = potentialRemovals]_vars
  /\ [][(cpc = "loop" /\ cpc' = "check") => ri' = ri]_vars
  /\ [][(cpc \in {"loop", "check"} /\ cpc' = "loop") => ri' = ri + 1]_vars
  /\ [][(cpc = "check" /\ cpc' # "check") =>
          /\ board = puzzle /\ limit = 2
          /\ puzzle'[LoopCell[1]][LoopCell[2]] = 0 <=> count = 1
          /\ count # 1 =>
               puzzle'[LoopCell[1]][LoopCell[2]] = solvedBoard[LoopCell[1]][LoopCell[2]]
          /\ \A rc \in Cells \ {LoopCell} : puzzle'[rc[1]][rc[2]] = puzzle[rc[1]][rc[2]]]_vars
  /\ [](Looping => removedCount = 81 - Filled(puzzle))

\* The fourth iteration has put its digit back and the fifth is about to run.
RemovalLoopWitness ==
  cpc = "loop" /\ ri = 5 /\ removedCount = 3 /\ Filled(puzzle) = 78

\* ------------------------------------------------------------ termination

\* The candidates of row r of the store.
RowTotal(vals, r) ==
  Len(vals[<<rows[r], "1">>]) + Len(vals[<<rows[r], "2">>]) + Len(vals[<<rows[r], "3">>])
    + Len(vals[<<rows[r], "4">>]) + Len(vals[<<rows[r], "5">>]) + Len(vals[<<rows[r], "6">>])
    + Len(vals[<<rows[r], "7">>]) + Len(vals[<<rows[r], "8">>]) + Len(vals[<<rows[r], "9">>])

\* The candidates of the whole store.
Total(vals) ==
  RowTotal(vals, 1) + RowTotal(vals, 2) + RowTotal(vals, 3) + RowTotal(vals, 4)
    + RowTotal(vals, 5) + RowTotal(vals, 6) + RowTotal(vals, 7) + RowTotal(vals, 8)
    + RowTotal(vals, 9)

\* The step enters an eliminate call that is not a no-op.
EntersEliminate ==
  /\ frames # << >> /\ values' # NULL
  /\ Len(frames') > Len(frames) /\ Top(frames').op \in {"peers", "units"}

\* C24: every eliminate call that is not a no-op takes one candidate from the
\* store, no other step of assign/eliminate changes the store, and every call
\* of assign returns: a running propagation comes to its end.
PropagationTerminates ==
  /\ [][EntersEliminate => Total(values') = Total(values) - 1]_vars
  /\ [][(frames # << >> /\ values' # NULL /\ ~EntersEliminate) => values' = values]_vars
  /\ (frames # << >>) ~> (frames = << >>)

\* parse_grid has returned a store its propagation solved: 648 candidates
\* were taken, one per eliminate call.
PropagationTerminatesWitness ==
  pc = "search_call" /\ frames = << >> /\ values # NULL /\ sframes = << >>
    /\ Total(values) = 81 /\ Filled(board) < 81

\* -------------------------------------------------------- nesting depth

\* A grid on which the eliminate calls of parse_grid nest more than 81 deep.
NestGrid ==
  << <<0, 0, 3, 1, 0, 0, 6, 2, 0>>,
     <<1, 0, 8, 0, 0, 4, 0, 7, 0>>,
     <<0, 0, 0, 0, 3, 0, 1, 5, 0>>,
     <<0, 7, 9, 6, 5, 0, 2, 4, 0>>,
     <<0, 0, 0, 0, 0, 0, 0, 6, 5>>,
     <<0, 0, 2, 3, 0, 0, 0, 0, 0>>,
     <<0, 3, 0, 8, 1, 7, 4, 0, 0>>,
     <<0, 1, 7, 5, 6, 0, 5, 2, 9>>,
     <<0, 0, 2, 5, 3, 0, 1, 0, 7>> >>

NestGrids == {NestGrid, SparseGrid}

\* countSolutions(board, MaxLimit) on the grids of NestGrids.
InitNest ==
  /\ PuzzleIdle /\ ShuffleIdle /\ BoardIdle /\ GameIdle /\ CallIdle
  /\ rnd = 0
  /\ board \in NestGrids
  /\ limit = MaxLimit
  /\ count = 0 /\ pc = "idle" /\ pk = 1 /\ values = NULL /\ frames = << >>
  /\ sframes = << >> /\ initialValues = UNDEFINED

SpecNest == InitNest /\ [][NextCount]_vars

\* C25 as stated: no eliminate call is nested more than 81 deep, 81 being the
\* number of cells.
NestingWithinCells == \A n \in 1..Len(frames) : frames[n].depth <= 81

\* C25: the eliminate calls on the stack have each taken a candidate of their
\* own from the store, so their number is at most the number of candidates
\* the store has lost, and at most 648 (8 for each of the 81 cells).
NestingWithinRemoved ==
  (frames # << >> /\ values # NULL) =>
    \A n \in 1..Len(frames) :
      /\ frames[n].depth <= 729 - Total(values)
      /\ frames[n].depth <= 648

\* An eliminate call runs with more than 81 eliminate calls on the stack.
NestingWithinRemovedWitness ==
  /\ frames # << >> /\ values # NULL
  /\ Top(frames).op \in {"peers", "units"} /\ Top(frames).depth > 81

\* ---------------------------------------------------------- generateBoard

\* C26: generateBoard returns, whatever the shuffles of solveSudoku give, and
\* when it returns the outermost solveSudoku call has returned true and the
\* board has no empty cell.
GenerationSucceeds ==
  /\ <>(gpc = "returned")
  /\ [](gpc = "returned" => (gret /\ \A rc \in Cells : gboard[rc[1]][rc[2]] \in 1..9))

\* generateBoard has returned a board no call of solveSudoku finds an empty
\* cell in.
GenerationSucceedsWitness ==
  gpc = "returned" /\ gret /\ gframes = << >> /\ firstEmpty(gboard) = -1

Irreducible ==
  (Returned /\ removedCount < difficulty) =>
    \A rc \in FilledCells(result) : CompletionsUpTo(Without(result, {rc}), 2) > 1

IrreducibleWitness ==
  /\ Returned
  /\ difficulty = MaxCellsToRemove /\ removedCount = 56
  /\ result[1][1] = 0 /\ result[1][3] = 3

\* C29: in every state of a game, each cell of the board that is not empty
\* holds the solution's digit, and each clue of the initial puzzle is on the
\* board; placements, hints, both auto-fill effects, their timeouts and the
\* starts of new games are interleaved in every order.
BoardAgreesWithSolution ==
  game.board # NULL =>
    /\ game.solution # NULL /\ game.initialPuzzleState # NULL
    /\ \A rc \in Cells :
         /\ game.board[rc[1]][rc[2]] # 0 =>
              game.board[rc[1]][rc[2]] = game.solution[rc[1]][rc[2]]
         /\ game.initialPuzzleState[rc[1]][rc[2]] # 0 =>
              game.board[rc[1]][rc[2]] = game.initialPuzzleState[rc[1]][rc[2]]

\* A game on BoardB in which 1 was placed at A1, a life and a hint were spent,
\* and an auto-fill timeout is pending.
BoardAgreesWithSolutionWitness ==
  /\ game.board # NULL /\ game.solution = BoardB
  /\ game.board[1][1] = 1
  /\ game.livesRemaining < 2 /\ game.hintsRemaining < 3
  /\ game.autoFillTimeoutRef # NULL

\* C30: a call initializeNewGame(d), from loadGame or from startNewGame, calls
\* createPuzzle with the number of cells to remove that d names, and d is the
\* currentDifficulty of the game.
NewGameAsAsked ==
  [][/\ \A param \in DifficultyParams, pz \in NewGamePuzzles :
          (/\ param # Undefined \/ savedGame = NULL
           /\ initializeNewGame_call(NULL, mounted(param),
                                     IF param # Undefined THEN param ELSE Num(50), pz))
            => /\ difficulty' = cellsToRemoveOf(IF param # Undefined THEN param ELSE Num(50))
               /\ game'.currentDifficulty = IF param # Undefined THEN param ELSE Num(50)
     /\ \A pz \in NewGamePuzzles :
          initializeNewGame_call(game, game,
                                 IF game.difficultyParam = Undefined THEN Num(50)
                                 ELSE game.difficultyParam, pz)
            => /\ difficulty' = cellsToRemoveOf(IF game.difficultyParam = Undefined THEN Num(50)
                                                ELSE game.difficultyParam)
               /\ game'.currentDifficulty = IF game.difficultyParam = Undefined THEN Num(50)
                                             ELSE game.difficultyParam]_vars

====
